---------------------------- MODULE Spec2Model ----------------------------
(***************************************************************************)
(* SleepSense firmware: the occupancy state machine (SleepDetector), the   *)
(* durable storage engine (DataManager) and the event-triggered recording  *)
(* controller (main_loop).                                                 *)
(*                                                                         *)
(* Voltages, variances and times are abstract integers: only their order   *)
(* against the thresholds matters to the code modelled here.  One unit of  *)
(* `now' is one clock tick.                                                *)
(***************************************************************************)
EXTENDS Integers, Sequences, FiniteSets, TLC

VARIABLES
    now,               \* time.time(), in ticks
    \* ---- SleepDetector (processing/sleep_detector.py)
    current_state, last_move_time, state_start_time, last_voltage, last_variance,
    \* ---- DataManager (data/data_manager.py)
    readings,          \* the rows of table `readings', in rowid order
    seq,               \* the AUTOINCREMENT counter: the largest id ever assigned
    memory_queue,      \* self._memory_queue
    insert_count,      \* self._insert_count
    calibration,       \* the rows of table `calibration'
    \* ---- main_loop (firmware/main.py)
    buffer,            \* the pre-roll deque
    is_recording,
    post_roll_counter,
    last_sync,         \* time of the last periodic sync check that ran
    \* ---- ADS1115 (sensors/ads1115.py)
    mock,              \* self.mock
    last_value,        \* self._last_value
    bus,               \* self.bus: "none", "open", or "closed" after close()
    \* ---- FSR408 (sensors/fsr408.py), voltages in millivolts
    simulation_mode,
    zero_reading_count,    \* self._zero_reading_count
    last_reading,          \* self._last_reading
    baseline_voltage,
    occupied_threshold,
    fsr_movement_threshold,    \* self.movement_threshold of the sensor
    data_manager,          \* whether self.data_manager is set
    \* ---- the process (firmware/main.py)
    running,           \* the global _running
    phase,             \* "loop" while main_loop runs, "exited" after shutdown
    \* ---- history
    samples,           \* number of samples the loop has taken
    last_move_sample,  \* number of the last sample with variance above the
                       \* movement threshold, 0 if there was none
    unsaved_changes,   \* samples that changed the detector's state and were
                       \* not passed to store_reading
    calls,             \* one entry per store_reading call, in call order
    \* ---- the two threads of tests/main.py on one DataManager
    storing,           \* the store_reading call in progress, or Idle
    pass,              \* the sync_once pass in progress, or Idle
    published,         \* history: the numbers of the readings whose payload
                       \* a pass has handed to publish with rc = 0
    ret                \* the most recent call: operation, arguments, result

detVars == <<current_state, last_move_time, state_start_time, last_voltage, last_variance>>
dmVars == <<readings, seq, memory_queue, insert_count, calibration>>
loopVars == <<buffer, is_recording, post_roll_counter, last_sync, samples,
              last_move_sample, unsaved_changes>>
\* no call of the thread is in progress
Idle == [pc |-> "idle"]

procVars == <<running, phase>>
threadVars == <<storing, pass, published>>
adcVars == <<mock, last_value, bus>>
fsrVars == <<simulation_mode, zero_reading_count, last_reading, baseline_voltage,
             occupied_threshold, fsr_movement_threshold, data_manager>>
sensVars == <<adcVars, fsrVars>>
vars == <<now, detVars, dmVars, loopVars, procVars, threadVars, sensVars, calls, ret>>

---------------------------------------------------------------------------
(* Bounds of the model *)
MaxTime == 6          \* the clock stops advancing here
MaxDt == 3            \* largest time between two detector updates
MaxStoreTime == 3     \* the clock of the storage specification stops here
MaxCalls == 4         \* store_reading calls in the storage specification
MaxSyncCalls == 3     \* store_reading calls in the synchronisation specification
MaxLimit == 2         \* largest limit passed to get_unsynced_readings
MaxSamples == 5       \* samples taken in the sampling-loop specification
MaxLoopFaults == 1    \* store_reading calls of the sampling loop that meet a fault
MaxReadings == 4      \* get_voltage calls in the history of the sensor specification

---------------------------------------------------------------------------
(* SleepState enumeration *)
EMPTY == "Empty Bed"
AWAKE == "Present (Awake)"
ASLEEP == "Asleep"
MOVING == "Tossing/Turning"
SleepState == {EMPTY, AWAKE, ASLEEP, MOVING}

(* SleepDetector configuration, in abstract units *)
empty_threshold == 1
movement_threshold == 1
sleep_delay == 2

Voltages == (empty_threshold - 1)..(empty_threshold + 1)
Variances == (movement_threshold - 1)..(movement_threshold + 1)

NoCall == [op |-> "none"]

---------------------------------------------------------------------------
(* SleepDetector *)

\* a faulty logic tree that tests for movement before it tests for an empty bed
NewStateSwapped(voltage, variance, t, lmt) ==
    IF variance > movement_threshold THEN MOVING
    ELSE IF voltage < empty_threshold THEN EMPTY
    ELSE IF t - lmt > sleep_delay THEN ASLEEP
    ELSE AWAKE

\* a logic tree that reports ASLEEP already when the time still equals sleep_delay
NewStateAtDelay(voltage, variance, t, lmt) ==
    IF voltage < empty_threshold THEN EMPTY
    ELSE IF variance > movement_threshold THEN MOVING
    ELSE IF t - lmt >= sleep_delay THEN ASLEEP
    ELSE AWAKE

\* the logic tree of update(): the state the sample is classified as
NewState(voltage, variance, t, lmt) ==
    IF voltage < empty_threshold THEN EMPTY
    ELSE IF variance > movement_threshold THEN MOVING
    ELSE IF t - lmt > sleep_delay THEN ASLEEP
    ELSE AWAKE

\* an update that restarts the sleep timer on every sample
DetectorUpdateStamping(d, voltage, variance, t) ==
    LET new_state == NewState(voltage, variance, t, d.last_move_time)
    IN  [current_state |-> new_state,
         last_move_time |-> t,
         state_start_time |-> IF new_state # d.current_state THEN t ELSE d.state_start_time,
         last_voltage |-> voltage,
         last_variance |-> variance]

\* an update that restarts the sleep timer whenever the state changes
DetectorUpdateRestarting(d, voltage, variance, t) ==
    LET new_state == NewState(voltage, variance, t, d.last_move_time)
    IN  [current_state |-> new_state,
         last_move_time |-> IF new_state \in {EMPTY, MOVING} \/ new_state # d.current_state
                            THEN t ELSE d.last_move_time,
         state_start_time |-> IF new_state # d.current_state THEN t ELSE d.state_start_time,
         last_voltage |-> voltage,
         last_variance |-> variance]

\* the detector after update(voltage, variance) at time t
DetectorUpdate(d, voltage, variance, t) ==
    LET new_state == NewState(voltage, variance, t, d.last_move_time)
    IN  [current_state |-> new_state,
         last_move_time |-> IF new_state \in {EMPTY, MOVING} THEN t ELSE d.last_move_time,
         state_start_time |-> IF new_state # d.current_state THEN t ELSE d.state_start_time,
         last_voltage |-> voltage,
         last_variance |-> variance]

Detector ==
    [current_state |-> current_state, last_move_time |-> last_move_time,
     state_start_time |-> state_start_time, last_voltage |-> last_voltage,
     last_variance |-> last_variance]

SetDetector(d) ==
    /\ current_state' = d.current_state
    /\ last_move_time' = d.last_move_time
    /\ state_start_time' = d.state_start_time
    /\ last_voltage' = d.last_voltage
    /\ last_variance' = d.last_variance

DetectorInit ==
    /\ current_state = EMPTY
    /\ last_move_time = now
    /\ state_start_time = now
    /\ last_voltage = 0
    /\ last_variance = 0

\* detector.update(voltage, variance), dt ticks after the previous call
Update(voltage, variance, dt) ==
    /\ now + dt <= MaxTime
    /\ now' = now + dt
    /\ LET d == DetectorUpdate(Detector, voltage, variance, now')
       IN  /\ SetDetector(d)
           /\ ret' = [op |-> "update", voltage |-> voltage, variance |-> variance,
                      at |-> now', value |-> d.current_state]
    /\ UNCHANGED <<dmVars, loopVars, procVars, threadVars, sensVars, calls>>

\* detector.reset()
Reset(dt) ==
    /\ now + dt <= MaxTime
    /\ now' = now + dt
    /\ current_state' = EMPTY
    /\ last_move_time' = now'
    /\ state_start_time' = now'
    /\ UNCHANGED <<last_voltage, last_variance>>
    /\ ret' = [op |-> "reset"]
    /\ UNCHANGED <<dmVars, loopVars, procVars, threadVars, sensVars, calls>>

---------------------------------------------------------------------------
(* Timestamps.  The TEXT stored in column `timestamp' is compared as text: *)
(* the date, then the separator (' ' in SQLite's CURRENT_TIMESTAMP, 'T' in  *)
(* datetime.isoformat()), then the time of day.  Both clocks are taken to   *)
(* show the same zone.                                                     *)
DayLen == 2           \* ticks per calendar day
SQL == 0              \* 'YYYY-MM-DD HH:MM:SS'
ISO == 1              \* 'YYYY-MM-DDTHH:MM:SS.ffffff'

Ts(fmt, t) == <<t \div DayLen, fmt, t % DayLen>>

\* a < b on the stored text
TsLess(a, b) ==
    \/ a[1] < b[1]
    \/ a[1] = b[1] /\ a[2] < b[2]
    \/ a[1] = b[1] /\ a[2] = b[2] /\ a[3] < b[3]

---------------------------------------------------------------------------
(* DataManager *)

\* the class constants, scaled down: 30 days, 100 writes, 1000 entries
RETENTION_DAYS == 1
CLEANUP_INTERVAL == 3
MAX_QUEUE_SIZE == 2

DataManager ==
    [readings |-> readings, seq |-> seq, memory_queue |-> memory_queue,
     insert_count |-> insert_count, calibration |-> calibration]

SetDataManager(d) ==
    /\ readings' = d.readings
    /\ seq' = d.seq
    /\ memory_queue' = d.memory_queue
    /\ insert_count' = d.insert_count
    /\ calibration' = d.calibration

\* __init__ and _init_db on a fresh database file
DataManagerInit ==
    /\ readings = <<>>
    /\ seq = 0
    /\ memory_queue = <<>>
    /\ insert_count = 0
    /\ calibration = {}

\* a faulty INSERT that creates the row already marked as synced
InsertRowSynced(d, ts, reading) ==
    [d EXCEPT !.readings = Append(@, [id |-> d.seq + 1, timestamp |-> ts,
                                       reading |-> reading, synced |-> TRUE]),
              !.seq = @ + 1]

\* INSERT INTO readings (...) VALUES (...): a new row with the next id
InsertRow(d, ts, reading) ==
    [d EXCEPT !.readings = Append(@, [id |-> d.seq + 1, timestamp |-> ts,
                                       reading |-> reading, synced |-> FALSE]),
              !.seq = @ + 1]

\* cleanup_old_data() at time t: DELETE FROM readings WHERE timestamp < cutoff
Cutoff(t) == Ts(ISO, t - RETENTION_DAYS * DayLen)

cleanup_old_data(d, t, fails) ==
    IF fails THEN d
    ELSE LET Kept(row) == ~TsLess(row.timestamp, Cutoff(t))
         IN  [d EXCEPT !.readings = SelectSeq(@, Kept)]

\* the rows that replaying the queue inserts, in queue order
RECURSIVE InsertAll(_, _)
InsertAll(d, items) ==
    IF items = <<>> THEN d
    ELSE InsertAll(InsertRow(d, items[1].timestamp, items[1].reading), Tail(items))

\* a faulty flush that empties the queue although the transaction failed
flush_memory_queue_clearing(d, fails) ==
    IF d.memory_queue = <<>> THEN d
    ELSE IF fails THEN [d EXCEPT !.memory_queue = <<>>]
    ELSE [InsertAll(d, d.memory_queue) EXCEPT !.memory_queue = <<>>]

\* _flush_memory_queue(): one transaction; on an error nothing is committed
\* and the queue is kept
flush_memory_queue(d, fails) ==
    IF d.memory_queue = <<>> \/ fails THEN d
    ELSE [InsertAll(d, d.memory_queue) EXCEPT !.memory_queue = <<>>]

\* the try branch after _insert: the write is counted and, every
\* CLEANUP_INTERVAL writes, cleanup_old_data() runs and the count restarts
count_insert(d, t, fails) ==
    LET d1 == [d EXCEPT !.insert_count = @ + 1]
    IN  IF d1.insert_count >= CLEANUP_INTERVAL
        THEN [cleanup_old_data(d1, t, fails) EXCEPT !.insert_count = 0]
        ELSE d1

\* the try branch after the count: `if self._memory_queue: self._flush_memory_queue()'
flush_if_queued(d, fails) ==
    IF d.memory_queue # <<>> THEN flush_memory_queue(d, fails) ELSE d

\* a faulty try branch that prunes one write late
AfterInsertLate(d, t, f) ==
    LET d1 == [d EXCEPT !.insert_count = @ + 1]
        d2 == IF d1.insert_count > CLEANUP_INTERVAL
              THEN [cleanup_old_data(d1, t, f.cleanup) EXCEPT !.insert_count = 0]
              ELSE d1
    IN  IF d2.memory_queue # <<>> THEN flush_memory_queue(d2, f.flush) ELSE d2

\* what store_reading does after _insert succeeded
AfterInsert(d, t, f) ==
    flush_if_queued(count_insert(d, t, f.cleanup), f.flush)

\* a faulty except branch that puts the record at the head of the queue
QueueReadingFront(d, reading, t) ==
    IF Len(d.memory_queue) < MAX_QUEUE_SIZE
    THEN [d EXCEPT !.memory_queue = <<[reading |-> reading,
                                       timestamp |-> Ts(ISO, t)]>> \o @]
    ELSE d

\* a faulty except branch that accepts one entry more than the capacity
QueueReadingOverfull(d, reading, t) ==
    IF Len(d.memory_queue) <= MAX_QUEUE_SIZE
    THEN [d EXCEPT !.memory_queue = Append(@, [reading |-> reading,
                                                 timestamp |-> Ts(ISO, t)])]
    ELSE d

\* the except branch of store_reading
QueueReading(d, reading, t) ==
    IF Len(d.memory_queue) < MAX_QUEUE_SIZE
    THEN [d EXCEPT !.memory_queue = Append(@, [reading |-> reading,
                                                 timestamp |-> Ts(ISO, t)])]
    ELSE d

\* a faulty store_reading whose retention pass and overflow flush let their
\* exceptions reach the except branch
store_reading_unguarded(d, reading, t, f) ==
    IF f.insert
    THEN [dm |-> QueueReading(d, reading, t), value |-> FALSE]
    ELSE IF f.cleanup \/ f.flush
    THEN [dm |-> QueueReading(InsertRow(d, Ts(SQL, t), reading), reading, t),
          value |-> FALSE]
    ELSE [dm |-> AfterInsert(InsertRow(d, Ts(SQL, t), reading), t, f), value |-> TRUE]

\* store_reading(...) at time t; f says which of its storage accesses fail
store_reading(d, reading, t, f) ==
    IF ~f.insert
    THEN [dm |-> AfterInsert(InsertRow(d, Ts(SQL, t), reading), t, f), value |-> TRUE]
    ELSE [dm |-> QueueReading(d, reading, t), value |-> FALSE]

\* ORDER BY timestamp ASC: rows with equal text stay in rowid order
RowBefore(a, b) ==
    \/ TsLess(a.timestamp, b.timestamp)
    \/ a.timestamp = b.timestamp /\ a.id < b.id

RECURSIVE SortRows(_)
SortRows(S) ==
    IF S = {} THEN <<>>
    ELSE LET first == CHOOSE a \in S : \A b \in S \ {a} : RowBefore(a, b)
         IN  <<first>> \o SortRows(S \ {first})

Range(s) == {s[i] : i \in 1..Len(s)}
Take(s, n) == SubSeq(s, 1, IF n < Len(s) THEN n ELSE Len(s))

\* the columns get_unsynced_readings selects
Selected(row) == [id |-> row.id, timestamp |-> row.timestamp, reading |-> row.reading]

\* get_unsynced_readings(limit)
get_unsynced_readings(d, limit, fails) ==
    IF fails THEN <<>>
    ELSE LET sorted == SortRows({row \in Range(d.readings) : ~row.synced})
         IN  [i \in 1..Len(Take(sorted, limit)) |-> Selected(sorted[i])]

\* a faulty mark_synced that marks every row (UPDATE without WHERE)
mark_synced_all(d, ids, fails) ==
    IF ids = {} THEN [dm |-> d, value |-> TRUE]
    ELSE IF fails THEN [dm |-> d, value |-> FALSE]
    ELSE [dm |-> [d EXCEPT !.readings =
                     [i \in 1..Len(@) |-> [@[i] EXCEPT !.synced = TRUE]]],
          value |-> TRUE]

\* a faulty mark_synced that assigns synced = (id IN ids) to every row
mark_synced_assign(d, ids, fails) ==
    IF ids = {} THEN [dm |-> d, value |-> TRUE]
    ELSE IF fails THEN [dm |-> d, value |-> FALSE]
    ELSE [dm |-> [d EXCEPT !.readings =
                     [i \in 1..Len(@) |->
                         [d.readings[i] EXCEPT !.synced = (d.readings[i].id \in ids)]]],
          value |-> TRUE]

\* mark_synced(ids)
mark_synced(d, ids, fails) ==
    IF ids = {} THEN [dm |-> d, value |-> TRUE]
    ELSE IF fails THEN [dm |-> d, value |-> FALSE]
    ELSE [dm |-> [d EXCEPT !.readings =
                     [i \in 1..Len(@) |-> IF @[i].id \in ids
                                          THEN [@[i] EXCEPT !.synced = TRUE]
                                          ELSE @[i]]],
          value |-> TRUE]

\* get_stats()
get_stats(d) ==
    [total_readings |-> Len(d.readings),
     unsynced_readings |-> Cardinality({i \in 1..Len(d.readings) : ~d.readings[i].synced}),
     memory_queue_size |-> Len(d.memory_queue)]

(* the calls *)

\* f says which of the storage accesses that a store_reading call makes fail
Faults == [insert : BOOLEAN, cleanup : BOOLEAN, flush : BOOLEAN]
NoFault == [insert |-> FALSE, cleanup |-> FALSE, flush |-> FALSE]

\* only an access that the call makes can fail
CanFail(d, f) ==
    /\ f.cleanup => ~f.insert /\ d.insert_count + 1 >= CLEANUP_INTERVAL
    /\ f.flush => ~f.insert /\ d.memory_queue # <<>>

\* the voltage, force_percent, state and variance passed by a caller
StoreInputs ==
    {[voltage |-> 2, force_percent |-> 50, state |-> ASLEEP, variance |-> 0],
     [voltage |-> 0, force_percent |-> 0, state |-> EMPTY, variance |-> 0]}

\* what the sampling loop passes while the bed is occupied and still
SyncInputs ==
    {[voltage |-> 2, force_percent |-> 50, state |-> ASLEEP, variance |-> 0]}

\* the n-th record passed to store_reading
Reading(n, in) ==
    [n |-> n, voltage |-> in.voltage, force_percent |-> in.force_percent,
     state |-> in.state, variance |-> in.variance]

\* the history entry of a store_reading call made at time t with d as it was
CallEntry(d, reading, t, f, value) ==
    [reading |-> reading, at |-> t, value |-> value, faults |-> f,
     queued |-> Len(d.memory_queue)]

StoreReading(in, f) ==
    /\ CanFail(DataManager, f)
    /\ LET reading == Reading(Len(calls) + 1, in)
           r == store_reading(DataManager, reading, now, f)
       IN  /\ SetDataManager(r.dm)
           /\ calls' = Append(calls, CallEntry(DataManager, reading, now, f, r.value))
           /\ ret' = [op |-> "store_reading", value |-> r.value]
    /\ UNCHANGED <<now, detVars, loopVars, procVars, threadVars, sensVars>>

GetUnsyncedReadings(limit, fails) ==
    /\ ret' = [op |-> "get_unsynced_readings", limit |-> limit, fails |-> fails,
               value |-> get_unsynced_readings(DataManager, limit, fails)]
    /\ UNCHANGED <<now, detVars, dmVars, loopVars, procVars, threadVars, sensVars, calls>>

MarkSynced(ids, fails) ==
    /\ fails => ids # {}
    /\ LET r == mark_synced(DataManager, ids, fails)
       IN  /\ SetDataManager(r.dm)
           /\ ret' = [op |-> "mark_synced", ids |-> ids, fails |-> fails,
                      value |-> r.value]
    /\ UNCHANGED <<now, detVars, loopVars, procVars, threadVars, sensVars, calls>>

\* time passes between calls
Tick ==
    /\ now' = now + 1
    /\ UNCHANGED <<detVars, dmVars, loopVars, procVars, threadVars, sensVars, calls, ret>>

---------------------------------------------------------------------------
(* _flush_memory_queue as a transaction.  The INSERT statements run inside *)
(* `with sqlite3.connect(...) as conn': the block commits when it ends     *)
(* normally and rolls back when a statement raises.  fail_at is the number *)
(* of the statement that raises: 0 for none, Len(queue) + 1 for the        *)
(* conn.commit() after the loop.                                           *)

\* the store with the rows that the statements before the failing one wrote
FlushInserted(d, fail_at) ==
    LET n == Len(d.memory_queue)
        done == IF fail_at = 0 \/ fail_at > n THEN n ELSE fail_at - 1
    IN  InsertAll(d, SubSeq(d.memory_queue, 1, done))

\* a faulty flush on a connection in autocommit mode: nothing is rolled back
flush_transaction_autocommit(d, fail_at) ==
    IF d.memory_queue = <<>> THEN d
    ELSE IF fail_at = 0 THEN [FlushInserted(d, fail_at) EXCEPT !.memory_queue = <<>>]
    ELSE FlushInserted(d, fail_at)

flush_transaction(d, fail_at) ==
    IF d.memory_queue = <<>> THEN d
    ELSE LET pending == FlushInserted(d, fail_at)
         IN  IF fail_at = 0
             THEN [pending EXCEPT !.memory_queue = <<>>]
             ELSE [pending EXCEPT !.readings = d.readings, !.seq = d.seq]

\* a direct call of _flush_memory_queue()
FlushMemoryQueue(fail_at) ==
    /\ fail_at <= Len(memory_queue) + 1
    /\ memory_queue = <<>> => fail_at = 0
    /\ SetDataManager(flush_transaction(DataManager, fail_at))
    /\ ret' = [op |-> "flush_memory_queue", fail_at |-> fail_at]
    /\ UNCHANGED <<now, detVars, loopVars, procVars, threadVars, sensVars, calls>>

---------------------------------------------------------------------------
(* cleanup_old_data called directly *)

\* the value cleanup_old_data returns: cursor.rowcount, or 0 on an error
cleanup_deleted(d, t, fails) ==
    IF fails THEN 0
    ELSE Len(d.readings) - Len(cleanup_old_data(d, t, fails).readings)

CleanupOldData(fails) ==
    /\ SetDataManager(cleanup_old_data(DataManager, now, fails))
    /\ ret' = [op |-> "cleanup_old_data", fails |-> fails,
               value |-> cleanup_deleted(DataManager, now, fails)]
    /\ UNCHANGED <<now, detVars, loopVars, procVars, threadVars, sensVars, calls>>

---------------------------------------------------------------------------
(* _execute_with_retry.  Each attempt of the operation ends in one of:     *)
(* "ok"; "locked", an sqlite3.OperationalError whose text has 'database is *)
(* locked'; "error", any other exception.  Waits are in tenths of a second. *)

max_retries == 3
Outcomes == {"ok", "locked", "error"}

\* a faulty loop that gives a locked database one attempt more
retry_from_extra(outcomes, attempt, waited) ==
    LET RECURSIVE go(_, _)
        go(a, w) ==
            IF a > max_retries THEN [attempts |-> a, waited |-> w, raised |-> TRUE]
            ELSE IF outcomes[a + 1] = "ok"
            THEN [attempts |-> a + 1, waited |-> w, raised |-> FALSE]
            ELSE IF outcomes[a + 1] = "locked" /\ a < max_retries
            THEN go(a + 1, w + (a + 1))
            ELSE [attempts |-> a + 1, waited |-> w, raised |-> TRUE]
    IN  go(attempt, waited)

\* the for loop from iteration `attempt' on: the attempts made, the time
\* slept, and whether the call raises
RECURSIVE retry_from(_, _, _)
retry_from(outcomes, attempt, waited) ==
    IF attempt >= max_retries
    THEN [attempts |-> attempt, waited |-> waited, raised |-> TRUE]
    ELSE IF outcomes[attempt + 1] = "ok"
    THEN [attempts |-> attempt + 1, waited |-> waited, raised |-> FALSE]
    ELSE IF outcomes[attempt + 1] = "locked" /\ attempt < max_retries - 1
    THEN retry_from(outcomes, attempt + 1, waited + (attempt + 1))
    ELSE [attempts |-> attempt + 1, waited |-> waited, raised |-> TRUE]

execute_with_retry(outcomes) == retry_from(outcomes, 0, 0)

\* store_reading(...) whose insert meets the given outcomes, attempt by
\* attempt; f says which of the later storage accesses fail
StoreWithRetry(in, outcomes, f) ==
    LET e == execute_with_retry(outcomes)
        reading == Reading(Len(calls) + 1, in)
        r == store_reading(DataManager, reading, now, f)
    IN  /\ f.insert = e.raised
        /\ CanFail(DataManager, f)
        /\ SetDataManager(r.dm)
        /\ calls' = Append(calls, CallEntry(DataManager, reading, now, f, r.value))
        /\ ret' = [op |-> "store_reading", value |-> r.value,
                   attempts |-> e.attempts, waited |-> e.waited,
                   outcomes |-> SubSeq(outcomes, 1, e.attempts)]
        /\ UNCHANGED <<now, detVars, loopVars, procVars, threadVars, sensVars>>

---------------------------------------------------------------------------
(* save_calibration / load_calibration.  Table `calibration' has the       *)
(* columns id INTEGER PRIMARY KEY CHECK (id = 1), baseline_voltage,        *)
(* occupied_threshold, movement_threshold, calibrated_at.                  *)

CalibrationRow(cal, t) ==
    [id |-> 1, baseline_voltage |-> cal.baseline_voltage,
     occupied_threshold |-> cal.occupied_threshold,
     movement_threshold |-> cal.movement_threshold,
     calibrated_at |-> Ts(SQL, t)]

\* a faulty statement, INSERT OR IGNORE, that keeps the row already there
save_calibration_ignore(d, cal, t, fails) ==
    IF fails THEN [dm |-> d, value |-> FALSE]
    ELSE [dm |-> [d EXCEPT !.calibration =
                     IF \E r \in @ : r.id = 1 THEN @ ELSE @ \cup {CalibrationRow(cal, t)}],
          value |-> TRUE]

\* REPLACE INTO calibration (id, ...) VALUES (1, ?, ?, ?, datetime('now')):
\* the row with the same primary key is deleted, the new one inserted.
\* Any exception is caught and False returned.
save_calibration(d, cal, t, fails) ==
    IF fails THEN [dm |-> d, value |-> FALSE]
    ELSE [dm |-> [d EXCEPT !.calibration =
                     {r \in @ : r.id # 1} \cup {CalibrationRow(cal, t)}],
          value |-> TRUE]

\* SELECT * FROM calibration WHERE id = 1; fetchone().  The result is {}
\* for None and {row} for dict(row); an exception is caught, None returned.
load_calibration(d, fails) ==
    LET rows == {r \in d.calibration : r.id = 1}
    IN  IF fails \/ rows = {} THEN {} ELSE {CHOOSE r \in rows : TRUE}

\* the values a caller passes
CalibrationInputs ==
    [baseline_voltage : 0..1, occupied_threshold : 2..3, movement_threshold : 0..1]

SaveCalibration(cal, fails) ==
    LET r == save_calibration(DataManager, cal, now, fails)
    IN  /\ SetDataManager(r.dm)
        /\ calls' = Append(calls, [op |-> "save_calibration", cal |-> cal,
                                   value |-> r.value])
        /\ ret' = [op |-> "save_calibration", value |-> r.value]
        /\ UNCHANGED <<now, detVars, loopVars, procVars, threadVars, sensVars>>

LoadCalibration(fails) ==
    /\ ret' = [op |-> "load_calibration", fails |-> fails,
               value |-> load_calibration(DataManager, fails)]
    /\ UNCHANGED <<now, detVars, dmVars, loopVars, procVars, threadVars, sensVars, calls>>

---------------------------------------------------------------------------
(* ADS1115: the register-level driver of the converter *)

\* bit operations on integers >= 0
RECURSIVE BitAnd(_, _)
BitAnd(a, b) ==
    IF a = 0 \/ b = 0 THEN 0
    ELSE (a % 2) * (b % 2) + 2 * BitAnd(a \div 2, b \div 2)

RECURSIVE BitOr(_, _)
BitOr(a, b) ==
    IF a = 0 THEN b
    ELSE IF b = 0 THEN a
    ELSE (IF a % 2 = 1 \/ b % 2 = 1 THEN 1 ELSE 0) + 2 * BitOr(a \div 2, b \div 2)

RECURSIVE Pow2(_)
Pow2(n) == IF n = 0 THEN 1 ELSE 2 * Pow2(n - 1)

ShiftLeft(a, n) == a * Pow2(n)
ShiftRight(a, n) == a \div Pow2(n)

\* pointer register values
POINTER_CONVERSION == 0
POINTER_CONFIG == 1

\* config register bit positions and values
CONFIG_OS == 15
CONFIG_MUX == 12
CONFIG_PGA == 9
CONFIG_MODE == 8
CONFIG_DR == 5
CONFIG_COMP_QUE == 0
PGA_4_096V == 1
MODE_SINGLE == 1
DR_128SPS == 4

\* the default of parameter retries of _write_register and _read_register;
\* no caller passes another value
retries == 3

ADC == [mock |-> mock, last_value |-> last_value, bus |-> bus]

\* ADS1115(bus, address, mock): the bus is opened unless in mock mode
ADCInit(m) ==
    /\ mock = m
    /\ last_value = 0
    /\ bus = IF m THEN "none" ELSE "open"

\* one call of a method of self.bus
BusCall(call, pointer, data) == [call |-> call, pointer |-> pointer, data |-> data]

NoIO == [raised |-> FALSE, io |-> <<>>, waits |-> <<>>]

\* the attempt loop of _write_register from attempt number `attempt' on.
\* outcomes[i] is "ok" when the i-th bus write returns and "fail" when it
\* raises.  io is the sequence of bus calls made, waits the sleeps between
\* them in tenths of a second, raised whether ADS1115Error is raised.
\* the loop giving up at the first failure
write_attempts_once(pointer, data, outcomes, attempt) ==
    [raised |-> outcomes[attempt + 1] # "ok",
     io |-> <<BusCall("write_i2c_block_data", pointer, data)>>,
     waits |-> <<>>]

RECURSIVE write_attempts(_, _, _, _)
write_attempts(pointer, data, outcomes, attempt) ==
    LET call == BusCall("write_i2c_block_data", pointer, data)
    IN  IF outcomes[attempt + 1] = "ok"
        THEN [raised |-> FALSE, io |-> <<call>>, waits |-> <<>>]
        ELSE IF attempt < retries - 1
        THEN LET r == write_attempts(pointer, data, outcomes, attempt + 1)
             IN  [raised |-> r.raised,
                  io |-> <<call>> \o r.io,
                  waits |-> <<attempt + 1>> \o r.waits]
        ELSE [raised |-> TRUE, io |-> <<call>>, waits |-> <<>>]

\* _write_register with the bytes in the other order
write_register_lsb_first(m, pointer, value, outcomes) ==
    IF m THEN NoIO
    ELSE write_attempts(pointer,
                        <<BitAnd(value, 255), BitAnd(ShiftRight(value, 8), 255)>>,
                        outcomes, 0)

_write_register(m, pointer, value, outcomes) ==
    IF m THEN NoIO
    ELSE LET msb == BitAnd(ShiftRight(value, 8), 255)
             lsb == BitAnd(value, 255)
         IN  write_attempts(pointer, <<msb, lsb>>, outcomes, 0)

\* the outcomes of one attempt of _read_register: write_byte raises;
\* write_byte returns and read_i2c_block_data raises; both return, the
\* second with two bytes
Nack == [kind |-> "nack", data |-> <<>>]
Fail == [kind |-> "fail", data |-> <<>>]
Ok(data) == [kind |-> "ok", data |-> data]

\* the attempt loop of _read_register from attempt number `attempt' on
RECURSIVE read_attempts(_, _, _)
read_attempts(pointer, outcomes, attempt) ==
    LET o == outcomes[attempt + 1]
        w == BusCall("write_byte", pointer, <<>>)
        r == BusCall("read_i2c_block_data", pointer, <<>>)
        issued == IF o.kind = "nack" THEN <<w>> ELSE <<w, r>>
        value == BitOr(ShiftLeft(o.data[1], 8), o.data[2])
    IN  IF o.kind = "ok"
        THEN [raised |-> FALSE,
              value |-> IF BitAnd(value, 32768) # 0 THEN value - 65536 ELSE value,
              io |-> issued, waits |-> <<>>]
        ELSE IF attempt < retries - 1
        THEN LET n == read_attempts(pointer, outcomes, attempt + 1)
             IN  [raised |-> n.raised, value |-> n.value,
                  io |-> issued \o n.io,
                  waits |-> <<attempt + 1>> \o n.waits]
        ELSE [raised |-> TRUE, value |-> 0, io |-> issued, waits |-> <<>>]

\* random is the value that random.randint(0, 65535) draws in mock mode
_read_register(m, pointer, outcomes, random) ==
    IF m THEN [raised |-> FALSE, value |-> random, io |-> <<>>, waits |-> <<>>]
    ELSE read_attempts(pointer, outcomes, 0)

\* _build_config without the mode bit
build_config_no_mode(channel, continuous) ==
    LET mux == BitOr(4, BitAnd(channel, 3))
    IN  BitOr(BitOr(BitOr(BitOr(ShiftLeft(1, CONFIG_OS),
                                ShiftLeft(mux, CONFIG_MUX)),
                          ShiftLeft(PGA_4_096V, CONFIG_PGA)),
                    ShiftLeft(DR_128SPS, CONFIG_DR)),
              ShiftLeft(3, CONFIG_COMP_QUE))

_build_config(channel, continuous) ==
    LET os == ShiftLeft(1, CONFIG_OS)
        mux == BitOr(4, BitAnd(channel, 3))
        mode == IF continuous THEN 0 ELSE MODE_SINGLE
    IN  BitOr(BitOr(BitOr(BitOr(BitOr(os,
                                      ShiftLeft(mux, CONFIG_MUX)),
                                ShiftLeft(PGA_4_096V, CONFIG_PGA)),
                          ShiftLeft(mode, CONFIG_MODE)),
                    ShiftLeft(DR_128SPS, CONFIG_DR)),
              ShiftLeft(3, CONFIG_COMP_QUE))

\* the polling loop of read_raw.  polls holds one entry, the outcomes of a
\* _read_register call, for every time the loop's condition finds the
\* timeout not yet over.  status & (1 << CONFIG_OS) is taken on the signed
\* value, whose bit 15 is that of its residue modulo 2^16.
RECURSIVE poll(_, _)
poll(polls, i) ==
    IF i > Len(polls)
    THEN [raised |-> FALSE, complete |-> FALSE, io |-> <<>>]
    ELSE LET status == _read_register(FALSE, POINTER_CONFIG, polls[i], 0)
         IN  IF status.raised
             THEN [raised |-> TRUE, complete |-> FALSE, io |-> status.io]
             ELSE IF BitAnd(status.value % 65536, ShiftLeft(1, CONFIG_OS)) # 0
             THEN [raised |-> FALSE, complete |-> TRUE, io |-> status.io]
             ELSE LET n == poll(polls, i + 1)
                  IN  [raised |-> n.raised, complete |-> n.complete,
                       io |-> status.io \o n.io]

\* read_raw(channel).  typed: channel is an int (if not, channel & 0x03
\* raises TypeError in _build_config, the one exception of the try block
\* that is not an ADS1115Error); wout, polls, cout: the outcomes of the bus
\* for the config write, the polls and the read of the conversion register;
\* random: the value random.randint(8000, 26000) draws in mock mode.
read_raw(adc, channel, typed, wout, polls, cout, random) ==
    LET keep(raised, value, io, complete) ==
            [adc |-> adc, raised |-> raised, value |-> value, io |-> io,
             complete |-> complete]
    IN  IF adc.mock THEN keep(FALSE, random, <<>>, TRUE)
        ELSE IF ~typed THEN keep(FALSE, adc.last_value, <<>>, FALSE)
        ELSE
        LET config == _build_config(channel, FALSE)
            w == _write_register(FALSE, POINTER_CONFIG, config, wout)
            p == poll(polls, 1)
            raw_value == _read_register(FALSE, POINTER_CONVERSION, cout, 0)
        IN  IF w.raised THEN keep(TRUE, 0, w.io, FALSE)
            ELSE IF p.raised THEN keep(TRUE, 0, w.io \o p.io, FALSE)
            ELSE IF raw_value.raised
            THEN keep(TRUE, 0, w.io \o p.io \o raw_value.io, p.complete)
            ELSE [adc |-> [adc EXCEPT !.last_value = raw_value.value],
                  raised |-> FALSE, value |-> raw_value.value,
                  io |-> w.io \o p.io \o raw_value.io,
                  complete |-> p.complete]

\* read_voltage(channel, pga = 4.096): (raw / 32767.0) * pga, here in
\* millivolts rounded down
read_voltage(adc, channel, typed, wout, polls, cout, random) ==
    LET raw == read_raw(adc, channel, typed, wout, polls, cout, random)
    IN  [raw EXCEPT !.value = IF raw.raised THEN 0 ELSE (raw.value * 4096) \div 32767]

\* is_connected: a read of the config register that does not raise
is_connected(adc, outcomes) ==
    IF adc.mock THEN [value |-> TRUE, io |-> <<>>]
    ELSE LET r == _read_register(FALSE, POINTER_CONFIG, outcomes, 0)
         IN  [value |-> ~r.raised, io |-> r.io]

\* close: self.bus.close() when there is a bus and the driver is not in mock
\* mode; an exception of it is logged and dropped
close(adc) ==
    IF adc.bus # "none" /\ ~adc.mock
    THEN [adc |-> [adc EXCEPT !.bus = "closed"], io |-> <<BusCall("close", 0, <<>>)>>]
    ELSE [adc |-> adc, io |-> <<>>]

\* ---- the calls
SetADC(adc) ==
    /\ mock' = adc.mock
    /\ last_value' = adc.last_value
    /\ bus' = adc.bus

notADC == <<now, detVars, dmVars, loopVars, procVars, threadVars, fsrVars, calls>>

WriteRegister(pointer, value, outcomes) ==
    LET w == _write_register(mock, pointer, value, outcomes)
    IN  /\ ret' = [op |-> "_write_register", pointer |-> pointer, value |-> value,
                   outcomes |-> outcomes, raised |-> w.raised, io |-> w.io,
                   waits |-> w.waits]
        /\ UNCHANGED <<notADC, adcVars>>

ReadRegister(pointer, outcomes, random) ==
    LET r == _read_register(mock, pointer, outcomes, random)
    IN  /\ ret' = [op |-> "_read_register", pointer |-> pointer,
                   outcomes |-> outcomes, raised |-> r.raised, value |-> r.value,
                   io |-> r.io, waits |-> r.waits]
        /\ UNCHANGED <<notADC, adcVars>>

BuildConfig(channel, continuous) ==
    /\ ret' = [op |-> "_build_config", channel |-> channel,
               continuous |-> continuous,
               value |-> _build_config(channel, continuous), io |-> <<>>]
    /\ UNCHANGED <<notADC, adcVars>>

ReadRaw(channel, typed, wout, polls, cout, random) ==
    LET r == read_raw(ADC, channel, typed, wout, polls, cout, random)
    IN  /\ SetADC(r.adc)
        /\ ret' = [op |-> "read_raw", typed |-> typed, wout |-> wout,
                   polls |-> polls, cout |-> cout, raised |-> r.raised,
                   value |-> r.value, io |-> r.io, complete |-> r.complete]
        /\ UNCHANGED notADC

ReadVoltage(channel, typed, wout, polls, cout, random) ==
    LET r == read_voltage(ADC, channel, typed, wout, polls, cout, random)
    IN  /\ SetADC(r.adc)
        /\ ret' = [op |-> "read_voltage", typed |-> typed, wout |-> wout,
                   polls |-> polls, cout |-> cout, raised |-> r.raised,
                   value |-> r.value, io |-> r.io, complete |-> r.complete]
        /\ UNCHANGED notADC

IsConnected(outcomes) ==
    LET r == is_connected(ADC, outcomes)
    IN  /\ ret' = [op |-> "is_connected", value |-> r.value, io |-> r.io]
        /\ UNCHANGED <<notADC, adcVars>>

Close ==
    LET r == close(ADC)
    IN  /\ SetADC(r.adc)
        /\ ret' = [op |-> "close", io |-> r.io]
        /\ UNCHANGED notADC

---------------------------------------------------------------------------
(* FSR408: the force sensor.  Voltages are integers, in millivolts. *)

DEFAULT_BASELINE == 500
DEFAULT_OCCUPIED == 2000
DEFAULT_MOVEMENT == 50

NEAR_ZERO == 10               \* the 0.01 V of _check_for_broken_sensor
BROKEN_SENSOR_READINGS == 3   \* near-zero readings in a row that switch modes

FSR ==
    [simulation_mode |-> simulation_mode, zero_reading_count |-> zero_reading_count,
     last_reading |-> last_reading, baseline_voltage |-> baseline_voltage,
     occupied_threshold |-> occupied_threshold,
     movement_threshold |-> fsr_movement_threshold, data_manager |-> data_manager]

SetFSR(s) ==
    /\ simulation_mode' = s.simulation_mode
    /\ zero_reading_count' = s.zero_reading_count
    /\ last_reading' = s.last_reading
    /\ baseline_voltage' = s.baseline_voltage
    /\ occupied_threshold' = s.occupied_threshold
    /\ fsr_movement_threshold' = s.movement_threshold
    /\ data_manager' = s.data_manager

\* FSR408(adc, channel, window_size, data_manager, simulation_mode)
FSRInit(sim, dm) ==
    /\ simulation_mode = sim
    /\ zero_reading_count = 0
    /\ last_reading = 0
    /\ baseline_voltage = DEFAULT_BASELINE
    /\ occupied_threshold = DEFAULT_OCCUPIED
    /\ fsr_movement_threshold = DEFAULT_MOVEMENT
    /\ data_manager = dm

\* what one get_voltage call meets: adc.read_voltage(channel) returns
\* `voltage' (ok) or raises (~ok); `sim' is the voltage the synthetic
\* generator would produce, already clamped to 0..3300
ADCVoltages == {0, 1000, 2000}
SimVoltages == {500, 2000}
Reads ==
    {r \in [ok : BOOLEAN, voltage : ADCVoltages, sim : SimVoltages] :
        ~r.ok => r.voltage = 0}

\* reads of the converter, and the read that is not looked at
AdcReads == {r \in Reads : r.sim = 500}
NoRead == [ok |-> TRUE, voltage |-> 0, sim |-> 500]

\* the part of a read that get_voltage does not look at is held fixed
Relevant(s, read) ==
    IF s.simulation_mode THEN read.ok /\ read.voltage = 0
    ELSE read.sim = 500

_enable_simulation_mode(s) == [s EXCEPT !.simulation_mode = TRUE]

\* a faulty check that keeps the count when a reading is not near zero
check_for_broken_sensor_keeping(s, voltage) ==
    IF s.simulation_mode THEN s
    ELSE LET c == IF voltage < NEAR_ZERO THEN s.zero_reading_count + 1
                  ELSE s.zero_reading_count
             t == [s EXCEPT !.zero_reading_count = c]
         IN  IF c >= BROKEN_SENSOR_READINGS THEN _enable_simulation_mode(t) ELSE t

\* _check_for_broken_sensor(voltage)
check_for_broken_sensor(s, voltage) ==
    IF s.simulation_mode THEN s
    ELSE LET c == IF voltage < NEAR_ZERO THEN s.zero_reading_count + 1 ELSE 0
             t == [s EXCEPT !.zero_reading_count = c]
         IN  IF c >= BROKEN_SENSOR_READINGS THEN _enable_simulation_mode(t) ELSE t

\* a faulty get_voltage that answers a failed read with 0 V
get_voltage_forgetting(s, read) ==
    IF s.simulation_mode
    THEN [fsr |-> [s EXCEPT !.last_reading = read.sim], value |-> read.sim,
          source |-> "simulation"]
    ELSE IF read.ok
    THEN [fsr |-> check_for_broken_sensor([s EXCEPT !.last_reading = read.voltage],
                                          read.voltage),
          value |-> read.voltage, source |-> "adc"]
    ELSE [fsr |-> [s EXCEPT !.last_reading = 0], value |-> 0, source |-> "error"]

\* get_voltage(): the sensor afterwards, the value returned, and where it
\* came from ("error": adc.read_voltage raised)
get_voltage(s, read) ==
    IF s.simulation_mode
    THEN [fsr |-> [s EXCEPT !.last_reading = read.sim], value |-> read.sim,
          source |-> "simulation"]
    ELSE IF read.ok
    THEN [fsr |-> check_for_broken_sensor([s EXCEPT !.last_reading = read.voltage],
                                          read.voltage),
          value |-> read.voltage, source |-> "adc"]
    ELSE [fsr |-> s, value |-> s.last_reading, source |-> "error"]

\* the entry the history keeps of one get_voltage call
ReadEntry(g) == [source |-> g.source, value |-> g.value]

\* a percentage as the exact fraction num / den
Percentage(num, den) == [num |-> num, den |-> den]

\* a faulty get_force_percentage that does not clamp
get_force_percentage_unclamped(s, read) ==
    LET g == get_voltage(s, read)
        voltage_range == s.occupied_threshold - s.baseline_voltage
    IN  [fsr |-> g.fsr, read |-> ReadEntry(g),
         value |-> IF voltage_range <= 0 THEN Percentage(0, 1)
                   ELSE Percentage((g.value - s.baseline_voltage) * 100, voltage_range)]

\* get_force_percentage(): ((voltage - baseline) / range) * 100 clamped to
\* 0..100, and 0 when the range is not positive
get_force_percentage(s, read) ==
    LET g == get_voltage(s, read)
        voltage_range == s.occupied_threshold - s.baseline_voltage
        percentage == (g.value - s.baseline_voltage) * 100
        clamped == IF percentage < 0 THEN 0
                   ELSE IF percentage > 100 * voltage_range THEN 100 * voltage_range
                   ELSE percentage
    IN  [fsr |-> g.fsr, read |-> ReadEntry(g),
         value |-> IF voltage_range <= 0 THEN Percentage(0, 1)
                   ELSE Percentage(clamped, voltage_range)]

\* in the sensor's specifications `calls' is the history of the get_voltage
\* calls, whoever made them
GetVoltage(read) ==
    LET g == get_voltage(FSR, read)
    IN  /\ Relevant(FSR, read)
        /\ SetFSR(g.fsr)
        /\ calls' = Append(calls, ReadEntry(g))
        /\ ret' = [op |-> "get_voltage", source |-> g.source, value |-> g.value]
        /\ UNCHANGED <<now, detVars, dmVars, loopVars, procVars, threadVars, adcVars>>

GetForcePercentage(read) ==
    LET r == get_force_percentage(FSR, read)
    IN  /\ Relevant(FSR, read)
        /\ SetFSR(r.fsr)
        /\ calls' = Append(calls, r.read)
        /\ ret' = [op |-> "get_force_percentage", voltage |-> r.read.value,
                   value |-> r.value]
        /\ UNCHANGED <<now, detVars, dmVars, loopVars, procVars, threadVars, adcVars>>

(* calibrate *)

CAL_SAMPLES == 1              \* samples per phase, 50 in _collect_samples(50, 5.0)
SIM_BASELINE == 500
SIM_OCCUPIED == 2000
SIM_MOVEMENT == 100
MIN_MOVEMENT == 50            \* the 0.05 V floor of the movement threshold

RECURSIVE Sum(_)
Sum(q) == IF q = <<>> THEN 0 ELSE q[1] + Sum(Tail(q))
\* statistics.mean; the voltages drawn make the quotient exact
Mean(q) == Sum(q) \div Len(q)
Abs(x) == IF x < 0 THEN -x ELSE x
Max(a, b) == IF a > b THEN a ELSE b

\* _collect_samples(count, duration): one get_voltage call per sample
RECURSIVE collect_samples(_, _)
collect_samples(s, reads) ==
    IF reads = <<>> THEN [fsr |-> s, samples |-> <<>>, entries |-> <<>>]
    ELSE LET g == get_voltage(s, reads[1])
             rest == collect_samples(g.fsr, Tail(reads))
         IN  [fsr |-> rest.fsr, samples |-> <<g.value>> \o rest.samples,
              entries |-> <<ReadEntry(g)>> \o rest.entries]

CalibrationData(s) ==
    [baseline_voltage |-> s.baseline_voltage,
     occupied_threshold |-> s.occupied_threshold,
     movement_threshold |-> s.movement_threshold]

\* the tail of both branches of calibrate: save when a data manager is there
SaveIfAttached(s, d, entries, t, fails) ==
    [fsr |-> s, entries |-> entries, value |-> CalibrationData(s),
     dm |-> IF s.data_manager THEN save_calibration(d, CalibrationData(s), t, fails).dm
            ELSE d,
     saves |-> IF s.data_manager THEN 1 ELSE 0]

\* calibrate(interactive); `interactive' only chooses between prompts and
\* sleeps.  reads are what the 2 * CAL_SAMPLES get_voltage calls meet.
calibrate(s, d, reads, t, fails) ==
    IF s.simulation_mode
    THEN SaveIfAttached([s EXCEPT !.baseline_voltage = SIM_BASELINE,
                                  !.occupied_threshold = SIM_OCCUPIED,
                                  !.movement_threshold = SIM_MOVEMENT],
                        d, <<>>, t, fails)
    ELSE LET base == collect_samples(s, SubSeq(reads, 1, CAL_SAMPLES))
             s1 == [base.fsr EXCEPT !.baseline_voltage = Mean(base.samples)]
             occ == collect_samples(s1, SubSeq(reads, CAL_SAMPLES + 1, 2 * CAL_SAMPLES))
             s2 == [occ.fsr EXCEPT !.occupied_threshold = Mean(occ.samples)]
             voltage_range == Abs(s2.occupied_threshold - s2.baseline_voltage)
             s3 == [s2 EXCEPT !.movement_threshold =
                                 Max((voltage_range * 10) \div 100, MIN_MOVEMENT)]
         IN  SaveIfAttached(s3, d, base.entries \o occ.entries, t, fails)

\* FSR408.load_calibration()
fsr_load_calibration(s, d, fails) ==
    LET cal == IF s.data_manager THEN load_calibration(d, fails) ELSE {}
    IN  IF cal = {} THEN [fsr |-> s, value |-> FALSE]
        ELSE LET row == CHOOSE r \in cal : TRUE
             IN  [fsr |-> [s EXCEPT !.baseline_voltage = row.baseline_voltage,
                                    !.occupied_threshold = row.occupied_threshold,
                                    !.movement_threshold = row.movement_threshold],
                  value |-> TRUE]

Calibrate(reads, fails) ==
    LET r == calibrate(FSR, DataManager, reads, now, fails)
    IN  /\ fails => data_manager
        /\ SetFSR(r.fsr)
        /\ SetDataManager(r.dm)
        /\ calls' = calls \o r.entries
        /\ ret' = [op |-> "calibrate", simulated |-> simulation_mode,
                   value |-> r.value, saves |-> r.saves, fails |-> fails]
        /\ UNCHANGED <<now, detVars, loopVars, procVars, threadVars, adcVars>>

FSRLoadCalibration(fails) ==
    LET r == fsr_load_calibration(FSR, DataManager, fails)
    IN  /\ fails => data_manager
        /\ SetFSR(r.fsr)
        /\ ret' = [op |-> "fsr.load_calibration", value |-> r.value]
        /\ UNCHANGED <<now, detVars, dmVars, loopVars, procVars, threadVars, adcVars, calls>>

---------------------------------------------------------------------------
(* main_loop: the event-triggered recording controller *)

\* the constants of main_loop, scaled down: 5 samples, 5 samples, 100 ticks,
\* 100 readings
POST_ROLL_SAMPLES == 2
BUFFER_MAXLEN == 2
SYNC_INTERVAL == 2
SYNC_LIMIT == 2

LoopInit ==
    /\ buffer = <<>>
    /\ is_recording = FALSE
    /\ post_roll_counter = 0
    /\ last_sync = now
    /\ samples = 0
    /\ last_move_sample = 0
    /\ unsaved_changes = {}

\* deque(maxlen=BUFFER_MAXLEN).append
DequeAppend(b, x) ==
    IF Len(b) < BUFFER_MAXLEN THEN Append(b, x) ELSE Append(Tail(b), x)

Controller ==
    [buffer |-> buffer, is_recording |-> is_recording,
     post_roll_counter |-> post_roll_counter]

Reverse(s) == [i \in 1..Len(s) |-> s[Len(s) + 1 - i]]

\* a faulty controller that also stores the idle samples it buffers
RecordingStepIdleStored(c, current_reading, variance) ==
    IF variance > movement_threshold
    THEN [buffer |-> c.buffer,
          is_recording |-> TRUE,
          post_roll_counter |-> POST_ROLL_SAMPLES,
          to_store |-> (IF ~c.is_recording THEN c.buffer ELSE <<>>)
                          \o <<current_reading>>]
    ELSE IF c.is_recording
    THEN [buffer |-> c.buffer,
          is_recording |-> ~(c.post_roll_counter - 1 <= 0),
          post_roll_counter |-> c.post_roll_counter - 1,
          to_store |-> <<current_reading>>]
    ELSE [buffer |-> DequeAppend(c.buffer, current_reading),
          is_recording |-> FALSE,
          post_roll_counter |-> c.post_roll_counter,
          to_store |-> <<current_reading>>]

\* a faulty controller that flushes the pre-roll ring newest first
RecordingStepNewestFirst(c, current_reading, variance) ==
    IF variance > movement_threshold
    THEN [buffer |-> c.buffer,
          is_recording |-> TRUE,
          post_roll_counter |-> POST_ROLL_SAMPLES,
          to_store |-> (IF ~c.is_recording THEN Reverse(c.buffer) ELSE <<>>)
                          \o <<current_reading>>]
    ELSE IF c.is_recording
    THEN [buffer |-> c.buffer,
          is_recording |-> ~(c.post_roll_counter - 1 <= 0),
          post_roll_counter |-> c.post_roll_counter - 1,
          to_store |-> <<current_reading>>]
    ELSE [buffer |-> DequeAppend(c.buffer, current_reading),
          is_recording |-> FALSE,
          post_roll_counter |-> c.post_roll_counter,
          to_store |-> <<>>]

\* a faulty controller whose post-roll ends one sample late
RecordingStepLongRoll(c, current_reading, variance) ==
    IF variance > movement_threshold
    THEN [buffer |-> c.buffer,
          is_recording |-> TRUE,
          post_roll_counter |-> POST_ROLL_SAMPLES,
          to_store |-> (IF ~c.is_recording THEN c.buffer ELSE <<>>)
                          \o <<current_reading>>]
    ELSE IF c.is_recording
    THEN [buffer |-> c.buffer,
          is_recording |-> ~(c.post_roll_counter - 1 < 0),
          post_roll_counter |-> c.post_roll_counter - 1,
          to_store |-> <<current_reading>>]
    ELSE [buffer |-> DequeAppend(c.buffer, current_reading),
          is_recording |-> FALSE,
          post_roll_counter |-> c.post_roll_counter,
          to_store |-> <<>>]

\* a faulty controller that flushes the ring on every moving sample
RecordingStepReflushing(c, current_reading, variance) ==
    IF variance > movement_threshold
    THEN [buffer |-> c.buffer,
          is_recording |-> TRUE,
          post_roll_counter |-> POST_ROLL_SAMPLES,
          to_store |-> c.buffer \o <<current_reading>>]
    ELSE IF c.is_recording
    THEN [buffer |-> c.buffer,
          is_recording |-> ~(c.post_roll_counter - 1 <= 0),
          post_roll_counter |-> c.post_roll_counter - 1,
          to_store |-> <<current_reading>>]
    ELSE [buffer |-> DequeAppend(c.buffer, current_reading),
          is_recording |-> FALSE,
          post_roll_counter |-> c.post_roll_counter,
          to_store |-> <<>>]

\* a faulty controller that ends the recording one sample late
RecordingStepLate(c, current_reading, variance) ==
    IF variance > movement_threshold
    THEN [buffer |-> c.buffer,
          is_recording |-> TRUE,
          post_roll_counter |-> POST_ROLL_SAMPLES,
          to_store |-> (IF ~c.is_recording THEN c.buffer ELSE <<>>)
                          \o <<current_reading>>]
    ELSE IF c.is_recording
    THEN [buffer |-> c.buffer,
          is_recording |-> ~(c.post_roll_counter - 1 < 0),
          post_roll_counter |-> c.post_roll_counter - 1,
          to_store |-> <<current_reading>>]
    ELSE [buffer |-> DequeAppend(c.buffer, current_reading),
          is_recording |-> FALSE,
          post_roll_counter |-> c.post_roll_counter,
          to_store |-> <<>>]

\* step 3 of an iteration: the controller after the sample, and the readings
\* that the iteration passes to store_reading, in call order
RecordingStep(c, current_reading, variance) ==
    IF variance > movement_threshold
    THEN [buffer |-> c.buffer,
          is_recording |-> TRUE,
          post_roll_counter |-> POST_ROLL_SAMPLES,
          to_store |-> (IF ~c.is_recording THEN c.buffer ELSE <<>>)
                          \o <<current_reading>>]
    ELSE IF c.is_recording
    THEN [buffer |-> c.buffer,
          is_recording |-> ~(c.post_roll_counter - 1 <= 0),
          post_roll_counter |-> c.post_roll_counter - 1,
          to_store |-> <<current_reading>>]
    ELSE [buffer |-> DequeAppend(c.buffer, current_reading),
          is_recording |-> FALSE,
          post_roll_counter |-> c.post_roll_counter,
          to_store |-> <<>>]

\* the store_reading calls of one iteration, made in order at time t; the
\* k-th of them meets fault f (k = 0: none does)
RECURSIVE StoreAll(_, _, _, _, _, _)
StoreAll(d, entries, rs, t, k, f) ==
    IF rs = <<>> THEN [dm |-> d, entries |-> entries, possible |-> k <= 0]
    ELSE LET g == IF k = 1 THEN f ELSE NoFault
             r == store_reading(d, rs[1], t, g)
         IN  IF ~CanFail(d, g)
             THEN [dm |-> d, entries |-> entries, possible |-> FALSE]
             ELSE StoreAll(r.dm, Append(entries, CallEntry(d, rs[1], t, g, r.value)),
                           Tail(rs), t, k - 1, f)

FaultsMet == Cardinality({i \in 1..Len(calls) : calls[i].faults # NoFault})

\* sync_unsynced_data(components): the batch is fetched; SupabaseClient has no
\* insert_batch, so the upload raises, the except clause logs it, and
\* mark_synced is not reached.  The pass leaves the store as it was.
sync_unsynced_data(d) ==
    LET unsynced == get_unsynced_readings(d, SYNC_LIMIT, FALSE)
    IN  [dm |-> d, fetched |-> Len(unsynced), marked |-> {}]

\* one iteration of the while loop: the three sensor reads, the detector
\* update, the recording decision, the store_reading calls and the periodic
\* sync check; the loop then sleeps until the next tick
LoopBody(voltage, force_pct, variance, k, f) ==
    /\ running /\ phase = "loop"
    /\ UNCHANGED <<procVars, threadVars>>
    /\ now' = now + 1
    /\ samples' = samples + 1
    /\ LET d == DetectorUpdate(Detector, voltage, variance, now')
           current_reading ==
               Reading(samples', [voltage |-> voltage, force_percent |-> force_pct,
                                  state |-> d.current_state, variance |-> variance])
           c == RecordingStep(Controller, current_reading, variance)
           st == StoreAll(DataManager, <<>>, c.to_store, now', k, f)
           passed == {c.to_store[i].n : i \in 1..Len(c.to_store)}
           sync_due == now' - last_sync > SYNC_INTERVAL
           dm == IF sync_due THEN sync_unsynced_data(st.dm).dm ELSE st.dm
       IN  /\ k <= Len(c.to_store)
           /\ st.possible
           /\ SetDetector(d)
           /\ buffer' = c.buffer
           /\ is_recording' = c.is_recording
           /\ post_roll_counter' = c.post_roll_counter
           /\ SetDataManager(dm)
           /\ last_sync' = IF sync_due THEN now' ELSE last_sync
           /\ calls' = calls \o st.entries
           /\ last_move_sample' = IF variance > movement_threshold THEN samples'
                                  ELSE last_move_sample
           /\ unsaved_changes' =
                 (unsaved_changes
                     \cup (IF d.current_state # current_state THEN {samples'} ELSE {}))
                 \ passed
           /\ ret' = [op |-> "iteration", reading |-> current_reading,
                      stored |-> Len(c.to_store), sync |-> sync_due]

\* one iteration with the sensor's three values given
Iteration(voltage, force_pct, variance, k, f) ==
    /\ LoopBody(voltage, force_pct, variance, k, f)
    /\ UNCHANGED sensVars

\* one iteration with the values read from the sensor: fsr.get_voltage(),
\* fsr.get_force_percentage() and fsr.get_variance() each call get_voltage
\* once.  The variance that get_variance computes from its window of
\* voltages is drawn freely.
SensedIteration(reads, variance) ==
    LET v == get_voltage(FSR, reads[1])
        p == get_force_percentage(v.fsr, reads[2])
        x == get_voltage(p.fsr, reads[3])
    IN  /\ LoopBody(v.value, p.value, variance, 0, NoFault)
        /\ SetFSR(x.fsr)
        /\ UNCHANGED adcVars

\* sensor values on both sides of each threshold
LoopVoltages == {empty_threshold - 1, empty_threshold}
LoopForces == {50}
LoopVariances == {movement_threshold, movement_threshold + 1}

---------------------------------------------------------------------------
(* The end of the process: signal_handler, and shutdown run by main() in   *)
(* its finally clause once main_loop has left `while _running'.            *)

\* signal_handler(signum, frame) for SIGINT and SIGTERM
SignalHandler ==
    /\ running /\ phase = "loop"
    /\ running' = FALSE
    /\ ret' = [op |-> "signal_handler"]
    /\ UNCHANGED <<now, detVars, dmVars, loopVars, phase, threadVars, sensVars, calls>>

\* shutdown(components): a last sync_unsynced_data, the ADC is closed, and
\* get_stats() is logged.  It makes no call that writes readings, replays
\* the overflow queue or deletes rows; its accesses to the store are reads.
Shutdown ==
    /\ ~running /\ phase = "loop"
    /\ LET s == sync_unsynced_data(DataManager)
       IN  /\ SetDataManager(s.dm)
           /\ ret' = [op |-> "shutdown", stats |-> get_stats(s.dm)]
    /\ SetADC(close(ADC).adc)
    /\ phase' = "exited"
    /\ UNCHANGED <<now, detVars, loopVars, running, threadVars, fsrVars, calls>>

---------------------------------------------------------------------------
(* Specification of the detector alone *)

\* everything but the sensor and its converter
InitCore ==
    /\ now = 0
    /\ DetectorInit
    /\ DataManagerInit
    /\ LoopInit
    /\ running = TRUE
    /\ phase = "loop"
    /\ calls = <<>>
    /\ ret = NoCall
    /\ storing = Idle
    /\ pass = Idle
    /\ published = {}

InitDetector == InitCore /\ ADCInit(FALSE) /\ FSRInit(FALSE, TRUE)

NextDetector ==
    \/ \E v \in Voltages, x \in Variances, dt \in 0..MaxDt : Update(v, x, dt)
    \/ \E dt \in 0..MaxDt : Reset(dt)

SpecDetector == InitDetector /\ [][NextDetector]_vars

---------------------------------------------------------------------------
(* Specification of the storage engine under writes *)

InitStore == InitDetector

NextStore ==
    \/ /\ Len(calls) < MaxCalls
       /\ \E in \in StoreInputs, f \in Faults : StoreReading(in, f)
    \/ now < MaxStoreTime /\ Tick

SpecStore == InitStore /\ [][NextStore]_vars

---------------------------------------------------------------------------
(* Specification of the storage engine with a synchronising reader *)

InitSync == InitDetector

\* the ids a caller can pass: those of rows, and one that names no row
KnownIds == 1..(seq + 1)

NextSync ==
    \/ /\ Len(calls) < MaxSyncCalls
       /\ \E in \in SyncInputs, f \in Faults : StoreReading(in, f)
    \/ \E limit \in 1..MaxLimit, fails \in BOOLEAN : GetUnsyncedReadings(limit, fails)
    \/ \E ids \in SUBSET KnownIds, fails \in BOOLEAN : MarkSynced(ids, fails)

SpecSync == InitSync /\ [][NextSync]_vars

---------------------------------------------------------------------------
(* Specification of the overflow queue: failing and succeeding writes, and *)
(* direct flushes that fail at any statement                               *)

MaxOverflowCalls == 4     \* store_reading calls in the overflow specification

InitOverflow == InitDetector

NextOverflow ==
    \/ /\ Len(calls) < MaxOverflowCalls
       /\ \E in \in SyncInputs, f \in Faults : StoreReading(in, f)
    \/ \E fail_at \in 0..(MAX_QUEUE_SIZE + 1) : FlushMemoryQueue(fail_at)

SpecOverflow == InitOverflow /\ [][NextOverflow]_vars

---------------------------------------------------------------------------
(* Specification of retention: writes and replays at different times,      *)
(* marking, and direct retention passes                                    *)

MaxRetentionCalls == 2    \* store_reading calls in the retention specification
MaxRetentionTime == 4     \* the clock of the retention specification stops here

InitRetention == InitDetector

NextRetention ==
    \/ /\ Len(calls) < MaxRetentionCalls
       /\ \E in \in SyncInputs, f \in Faults : StoreReading(in, f)
    \/ \E ids \in {{id} : id \in 1..seq} : MarkSynced(ids, FALSE)
    \/ \E fails \in BOOLEAN : CleanupOldData(fails)
    \/ now < MaxRetentionTime /\ Tick

SpecRetention == InitRetention /\ [][NextRetention]_vars

---------------------------------------------------------------------------
(* Specification of the write path with its retries *)

MaxRetryCalls == 4        \* store_reading calls in the retry specification

InitRetry == InitDetector

NextRetry ==
    /\ Len(calls) < MaxRetryCalls
    /\ \E in \in SyncInputs, outcomes \in [1..(max_retries + 1) -> Outcomes], f \in Faults :
          StoreWithRetry(in, outcomes, f)

SpecRetry == InitRetry /\ [][NextRetry]_vars

---------------------------------------------------------------------------
(* Specification of the calibration store *)

MaxCalibrationCalls == 2  \* save_calibration calls
MaxCalibrationTime == 1   \* clock ticks

InitCalibration == InitDetector

NextCalibration ==
    \/ /\ Len(calls) < MaxCalibrationCalls
       /\ \E cal \in CalibrationInputs, fails \in BOOLEAN : SaveCalibration(cal, fails)
    \/ \E fails \in BOOLEAN : LoadCalibration(fails)
    \/ now < MaxCalibrationTime /\ Tick

SpecCalibration == InitCalibration /\ [][NextCalibration]_vars

---------------------------------------------------------------------------
(* The synchronising passes with a transport that answers.                 *)
(* sync_unsynced_data: supabase.insert_batch(readings_list) returns a true *)
(* value ("ok"), a false one ("rejected"), or raises ("raises").           *)
(* MQTTSyncService.sync_once: per row, publish returns rc = 0 and          *)
(* mark_synced succeeds ("ok"), rc = 0 and mark_synced fails ("unmarked"), *)
(* rc # 0 ("fail"), or the payload does not parse ("badjson").             *)

UploadOutcomes == {"ok", "rejected", "raises"}
PublishOutcomes == {"ok", "unmarked", "fail", "badjson"}
batch_size == 2            \* scaled down from 20

IdsOf(rows) == {rows[i].id : i \in 1..Len(rows)}

\* a faulty pass that marks the batch whatever the upload reported
sync_unsynced_data_unchecked(d, upload, fails) ==
    LET unsynced == get_unsynced_readings(d, SYNC_LIMIT, fails.get)
    IN  IF unsynced = <<>>
        THEN [dm |-> d, fetched |-> unsynced, called |-> FALSE, marked |-> {}]
        ELSE [dm |-> mark_synced(d, IdsOf(unsynced), fails.mark).dm,
              fetched |-> unsynced, called |-> TRUE, marked |-> IdsOf(unsynced)]

\* sync_unsynced_data(components) with the given answer of insert_batch;
\* `called' says whether mark_synced was called, `marked' with which ids
sync_unsynced_data_with(d, upload, fails) ==
    LET unsynced == get_unsynced_readings(d, SYNC_LIMIT, fails.get)
    IN  IF unsynced = <<>>
        THEN [dm |-> d, fetched |-> unsynced, called |-> FALSE, marked |-> {}]
        ELSE IF upload = "ok"
        THEN [dm |-> mark_synced(d, IdsOf(unsynced), fails.mark).dm,
              fetched |-> unsynced, called |-> TRUE, marked |-> IdsOf(unsynced)]
        ELSE [dm |-> d, fetched |-> unsynced, called |-> FALSE, marked |-> {}]

\* the for loop of sync_once from row i on
RECURSIVE publish_from(_, _, _, _, _)
publish_from(d, rows, results, i, sent) ==
    IF i > Len(rows) THEN [dm |-> d, value |-> sent]
    ELSE IF results[i] = "badjson" THEN publish_from(d, rows, results, i + 1, sent)
    ELSE IF results[i] = "fail" THEN [dm |-> d, value |-> sent]
    ELSE publish_from(mark_synced(d, {rows[i].id}, results[i] = "unmarked").dm,
                      rows, results, i + 1, sent + 1)

\* MQTTSyncService.sync_once(); connected is the answer of _connect_if_needed
sync_once(d, connected, results, fails) ==
    LET rows == get_unsynced_readings(d, batch_size, fails)
    IN  IF rows = <<>> \/ ~connected
        THEN [dm |-> d, rows |-> rows, value |-> 0]
        ELSE [rows |-> rows] @@ publish_from(d, rows, results, 1, 0)

SyncFaults == [get : BOOLEAN, mark : BOOLEAN]

SyncUnsyncedData(upload, fails) ==
    LET r == sync_unsynced_data_with(DataManager, upload, fails)
    IN  /\ fails.mark => ~fails.get /\ upload = "ok"
        /\ SetDataManager(r.dm)
        /\ ret' = [op |-> "sync_unsynced_data", upload |-> upload, fails |-> fails,
                   fetched |-> r.fetched, called |-> r.called, marked |-> r.marked]
        /\ UNCHANGED <<now, detVars, loopVars, procVars, threadVars, sensVars, calls>>

SyncOnce(connected, results, fails) ==
    LET r == sync_once(DataManager, connected, results, fails)
    IN  /\ SetDataManager(r.dm)
        /\ ret' = [op |-> "sync_once", connected |-> connected, fails |-> fails,
                   rows |-> r.rows, results |-> SubSeq(results, 1, Len(r.rows)),
                   value |-> r.value]
        /\ UNCHANGED <<now, detVars, loopVars, procVars, threadVars, sensVars, calls>>

---------------------------------------------------------------------------
(* Specification of the store with its two synchronising services *)

MaxUploadCalls == 3       \* store_reading calls in the upload specification

InitUpload == InitDetector

NextUpload ==
    \/ /\ Len(calls) < MaxUploadCalls
       /\ \E in \in SyncInputs : StoreReading(in, NoFault)
    \/ \E upload \in UploadOutcomes, fails \in SyncFaults : SyncUnsyncedData(upload, fails)
    \/ \E connected \in BOOLEAN, results \in [1..batch_size -> PublishOutcomes],
          fails \in BOOLEAN : SyncOnce(connected, results, fails)

SpecUpload == InitUpload /\ [][NextUpload]_vars

---------------------------------------------------------------------------
(* The two threads of tests/main.py on one DataManager.  The main thread   *)
(* calls store_reading; the daemon thread runs MQTTSyncService.run_forever,*)
(* one sync_once pass after the other.  Every access to the database opens *)
(* its own connection and is one SQLite transaction, so the transactions   *)
(* are the atomic steps; _memory_queue and _insert_count are touched by    *)
(* the main thread only.  A transaction that meets a locked database fails *)
(* like any other: the `fails' input of the step.                          *)

\* store_reading, first step: the _insert transaction, or, when it raised,
\* the except branch, which ends the call
StoreInsert(in, fails) ==
    /\ storing = Idle
    /\ LET reading == Reading(Len(calls) + 1, in)
       IN  IF fails
           THEN /\ SetDataManager(QueueReading(DataManager, reading, now))
                /\ calls' = Append(calls, CallEntry(DataManager, reading, now,
                                       [NoFault EXCEPT !.insert = TRUE], FALSE))
                /\ storing' = Idle
                /\ ret' = [op |-> "store_reading", value |-> FALSE]
           ELSE /\ SetDataManager(InsertRow(DataManager, Ts(SQL, now), reading))
                /\ storing' = [pc |-> "inserted", reading |-> reading, at |-> now,
                               queued |-> Len(memory_queue), faults |-> NoFault]
                /\ ret' = [op |-> "_insert", n |-> reading.n]
                /\ UNCHANGED calls
    /\ UNCHANGED <<now, detVars, loopVars, procVars, pass, published, sensVars>>

\* store_reading, second step: the count and the retention pass
StoreCleanup(fails) ==
    /\ storing.pc = "inserted"
    /\ fails => insert_count + 1 >= CLEANUP_INTERVAL
    /\ SetDataManager(count_insert(DataManager, now, fails))
    /\ storing' = [storing EXCEPT !.pc = "counted", !.faults.cleanup = fails]
    /\ ret' = [op |-> "cleanup_old_data", ran |-> insert_count + 1 >= CLEANUP_INTERVAL]
    /\ UNCHANGED <<now, detVars, loopVars, procVars, pass, published, sensVars, calls>>

\* store_reading, last step: the replay of the overflow queue and the return
StoreFlush(fails) ==
    /\ storing.pc = "counted"
    /\ fails => memory_queue # <<>>
    /\ SetDataManager(flush_if_queued(DataManager, fails))
    /\ calls' = Append(calls, [reading |-> storing.reading, at |-> storing.at,
                               value |-> TRUE,
                               faults |-> [storing.faults EXCEPT !.flush = fails],
                               queued |-> storing.queued])
    /\ storing' = Idle
    /\ ret' = [op |-> "store_reading", value |-> TRUE]
    /\ UNCHANGED <<now, detVars, loopVars, procVars, pass, published, sensVars>>

\* sync_once, first step: get_unsynced_readings(limit=batch_size), the two
\* early returns; `since' remembers the last id assigned when the table was read
PassFetch(connected, fails) ==
    /\ pass = Idle
    /\ LET rows == get_unsynced_readings(DataManager, batch_size, fails)
       IN  /\ pass' = IF rows = <<>> \/ ~connected THEN Idle
                      ELSE [pc |-> "publishing", rows |-> rows, i |-> 1, sent |-> 0,
                            since |-> seq]
           /\ ret' = [op |-> "get_unsynced_readings", limit |-> batch_size,
                      fails |-> fails, value |-> rows]
    /\ UNCHANGED <<now, detVars, dmVars, loopVars, procVars, storing, published,
                   sensVars, calls>>

\* the pass after row i: at the end of the batch sync_once returns
AfterRow(p) ==
    IF p.i > Len(p.rows) THEN Idle ELSE p

\* sync_once, one iteration of the for loop: to_json, publish, and
\* mark_synced([r["id"]]) when rc = 0; publish touches nothing of the store,
\* so the step is the mark_synced transaction with what leads to it
PassPublish(outcome) ==
    /\ pass.pc = "publishing"
    /\ LET r == pass.rows[pass.i]
       IN  /\ ret' = [op |-> "publish", id |-> r.id]
           /\ IF outcome = "badjson"
              THEN /\ pass' = AfterRow([pass EXCEPT !.i = @ + 1])
                   /\ UNCHANGED <<dmVars, published>>
              ELSE IF outcome = "fail"
              THEN /\ pass' = Idle
                   /\ UNCHANGED <<dmVars, published>>
              ELSE /\ SetDataManager(mark_synced(DataManager, {r.id},
                                                 outcome = "unmarked").dm)
                   /\ published' = published \cup {r.reading.n}
                   /\ pass' = AfterRow([pass EXCEPT !.i = @ + 1, !.sent = @ + 1])
    /\ UNCHANGED <<now, detVars, loopVars, procVars, storing, sensVars, calls>>

\* the main thread sleeps between two store_reading calls for as long as
\* the retention period; what is in the table is then old enough to be pruned
Elapse ==
    /\ storing = Idle
    /\ now' = now + RETENTION_DAYS * DayLen
    /\ UNCHANGED <<detVars, dmVars, loopVars, procVars, threadVars, sensVars, calls, ret>>

---------------------------------------------------------------------------
(* Specification of the store under its two threads *)

MaxConcurrentCalls == 3   \* store_reading calls of the main thread
MaxConcurrentPeriods == 1 \* retention periods that pass in this specification

InitConcurrent == InitDetector

NextConcurrent ==
    \/ /\ Len(calls) < MaxConcurrentCalls
       /\ \E in \in SyncInputs, fails \in BOOLEAN : StoreInsert(in, fails)
    \/ \E fails \in BOOLEAN : StoreCleanup(fails)
    \/ \E fails \in BOOLEAN : StoreFlush(fails)
    \/ \E connected \in BOOLEAN, fails \in BOOLEAN : PassFetch(connected, fails)
    \/ \E outcome \in PublishOutcomes : PassPublish(outcome)
    \/ now < MaxConcurrentPeriods * RETENTION_DAYS * DayLen /\ Elapse

SpecConcurrent == InitConcurrent /\ [][NextConcurrent]_vars

---------------------------------------------------------------------------
(* Specification of the force sensor *)

InitSensor ==
    /\ InitCore
    /\ ADCInit(FALSE)
    /\ \E sim \in BOOLEAN, dm \in BOOLEAN : FSRInit(sim, dm)

NextSensor ==
    /\ Len(calls) < MaxReadings
    /\ \/ \E read \in Reads : GetVoltage(read)
       \/ \E read \in Reads : GetForcePercentage(read)
       \/ /\ simulation_mode
          /\ \E fails \in BOOLEAN : Calibrate([i \in 1..(2 * CAL_SAMPLES) |-> NoRead], fails)
       \/ /\ ~simulation_mode
          /\ Len(calls) + 2 * CAL_SAMPLES <= MaxReadings
          /\ \E reads \in [1..(2 * CAL_SAMPLES) -> AdcReads], fails \in BOOLEAN :
                Calibrate(reads, fails)
       \/ \E fails \in BOOLEAN : FSRLoadCalibration(fails)

SpecSensor == InitSensor /\ [][NextSensor]_vars

---------------------------------------------------------------------------
(* Specification of the converter's driver: every operation, in mock mode  *)
(* and on a bus whose transfers fail or succeed                            *)

MaxPolls == 2     \* polls of read_raw that fit into its timeout

Pointers == {POINTER_CONVERSION, POINTER_CONFIG}
Channels == 0..3
\* 16-bit values on both sides of each byte's and of the sign's boundary
Words == {0, 1, 255, 256, 32767, 32768, 65280, 65535}
\* draws of random.randint(0, 65535) and of random.randint(8000, 26000)
MockRegisterValues == {0, 32767, 32768, 65535}
MockRawValues == {8000, 26000}

\* what the bus can do in the attempts of one register write; the outcomes
\* after the first success are never looked at and are left at "ok"
WriteRuns ==
    {o \in [1..retries -> {"ok", "fail"}] :
        \A i, j \in 1..retries : i < j /\ o[i] = "ok" => o[j] = "ok"}

\* every value written on a bus that works, one value on a bus that fails
WriteInputs ==
    {in \in [value : Words, outcomes : WriteRuns] :
        in.outcomes[1] = "ok" \/ in.value = 65280}

\* the same for one register read that is answered, if at all, with data
ReadRunsOf(data) ==
    {o \in [1..retries -> {Nack, Fail, Ok(data)}] :
        \A i, j \in 1..retries : i < j /\ o[i].kind = "ok" => o[j].kind = "ok"}

Always(o) == [i \in 1..retries |-> o]
NoRun == Always(Fail)

\* the two bytes of every word answered at once, one word on a bus that fails
ReadRuns ==
    {Always(Ok(<<v \div 256, v % 256>>)) : v \in Words} \cup ReadRunsOf(<<255, 254>>)

\* for the calls inside read_raw: the status with the conversion running
\* and complete, a value of either sign, one of them after a failed
\* attempt, and a register that cannot be read
Running == Always(Ok(<<0, 0>>))
StatusRuns == {Running, Always(Ok(<<128, 0>>)), NoRun}
ConversionRuns ==
    {Always(Ok(<<0, 1>>)), [i \in 1..retries |-> IF i = 1 THEN Fail ELSE Ok(<<255, 255>>)],
     NoRun}

\* the polls of one read_raw call: all but the last find the conversion
\* still running
PollRuns ==
    {p \in UNION {[1..n -> StatusRuns] : n \in 0..MaxPolls} :
        \A i \in 1..(Len(p) - 1) : p[i] = Running}

\* the arguments of a read_raw call that matter in the state it is made in
RawInputs ==
    IF mock
    THEN {[typed |-> TRUE, wout |-> Always("ok"), polls |-> <<>>,
           cout |-> NoRun, random |-> v] : v \in MockRawValues}
    ELSE {in \in [typed : BOOLEAN, wout : {Always("ok"), Always("fail")},
                  polls : PollRuns, cout : ConversionRuns, random : {0}] :
             LET reached == in.typed /\ in.wout[1] = "ok"
                 polled == reached /\ (in.polls = <<>> \/ in.polls[Len(in.polls)] # NoRun)
             IN  /\ ~reached => in.polls = <<>>
                 /\ ~polled => in.cout = NoRun
                 /\ ~in.typed => in.wout[1] = "ok"}

InitADC ==
    /\ InitCore
    /\ \E m \in BOOLEAN : ADCInit(m)
    /\ FSRInit(FALSE, TRUE)

NextADC ==
    /\ bus # "closed"
    /\ \/ \E pointer \in Pointers, in \in WriteInputs :
             WriteRegister(pointer, in.value, in.outcomes)
       \/ /\ mock
          /\ \E pointer \in Pointers, v \in MockRegisterValues :
                ReadRegister(pointer, NoRun, v)
       \/ /\ ~mock
          /\ \E pointer \in Pointers, o \in ReadRuns : ReadRegister(pointer, o, 0)
       \/ \E channel \in Channels, continuous \in BOOLEAN :
             BuildConfig(channel, continuous)
       \/ \E in \in RawInputs :
             ReadRaw(0, in.typed, in.wout, in.polls, in.cout, in.random)
       \/ \E in \in RawInputs :
             ReadVoltage(0, in.typed, in.wout, in.polls, in.cout, in.random)
       \/ \E o \in StatusRuns : IsConnected(o)
       \/ Close

SpecADC == InitADC /\ [][NextADC]_vars



InitLoop == InitDetector

NextLoop ==
    /\ samples < MaxSamples
    /\ \E v \in LoopVoltages, p \in LoopForces, x \in LoopVariances :
          \/ Iteration(v, p, x, 0, NoFault)
          \/ /\ FaultsMet < MaxLoopFaults
             /\ \E k \in 1..(BUFFER_MAXLEN + 1), f \in Faults \ {NoFault} :
                   Iteration(v, p, x, k, f)

SpecLoop == InitLoop /\ [][NextLoop]_vars

---------------------------------------------------------------------------
(* Specification of the sampling loop with its sensor *)

MaxSensedSamples == 2     \* samples taken in this specification

InitSensedLoop == InitCore /\ ADCInit(FALSE) /\ FSRInit(FALSE, TRUE)

\* the reads an iteration can meet: of the converter before the switch to
\* simulation mode, of the generator after it
LoopReads ==
    IF simulation_mode THEN {r \in Reads : r.ok /\ r.voltage = 0} ELSE AdcReads

NextSensedLoop ==
    /\ samples < MaxSensedSamples
    /\ \E reads \in [1..3 -> LoopReads], x \in LoopVariances : SensedIteration(reads, x)

SpecSensedLoop == InitSensedLoop /\ [][NextSensedLoop]_vars

---------------------------------------------------------------------------
(* Specification of the firmware's periodic synchronisation: the sampling  *)
(* loop writes readings, and every SYNC_INTERVAL it calls                  *)
(* sync_unsynced_data, for as long as the process runs.  The upstream      *)
(* accepts whatever reaches it.                                            *)

MaxPeriodicCalls == 3     \* store_reading calls in this specification

\* step 5 of an iteration when the sync is due
PeriodicSync ==
    LET s == sync_unsynced_data(DataManager)
    IN  /\ SetDataManager(s.dm)
        /\ ret' = [op |-> "periodic_sync", fetched |-> s.fetched, marked |-> s.marked]
        /\ UNCHANGED <<now, detVars, loopVars, procVars, threadVars, sensVars, calls>>

InitPeriodic == InitDetector

NextPeriodic ==
    \/ /\ Len(calls) < MaxPeriodicCalls
       /\ \E in \in StoreInputs, f \in Faults : StoreReading(in, f)
    \/ PeriodicSync

SpecPeriodic == InitPeriodic /\ [][NextPeriodic]_vars /\ WF_vars(PeriodicSync)

---------------------------------------------------------------------------
(* Specification of a run of the process that a signal ends: iterations of *)
(* main_loop, the signal, shutdown.  The signal is delivered at some time, *)
(* and main() then runs shutdown.                                          *)

MaxLifeSamples == 3       \* samples taken before the signal at the latest

InitLife == InitDetector

NextLife ==
    \/ /\ samples < MaxLifeSamples
       /\ \E v \in LoopVoltages, p \in LoopForces, x \in LoopVariances :
             \/ Iteration(v, p, x, 0, NoFault)
             \/ /\ FaultsMet < MaxLoopFaults
                /\ \E k \in 1..(BUFFER_MAXLEN + 1), f \in Faults \ {NoFault} :
                      Iteration(v, p, x, k, f)
    \/ SignalHandler
    \/ Shutdown

SpecLife ==
    InitLife /\ [][NextLife]_vars /\ WF_vars(SignalHandler) /\ WF_vars(Shutdown)

---------------------------------------------------------------------------
(* C1: every update(voltage, variance) at time now returns, and leaves in   *)
(* current_state, EMPTY if voltage < empty_threshold; otherwise MOVING if  *)
(* variance > movement_threshold; otherwise ASLEEP if now - last_move_time *)
(* (as it was before the call) > sleep_delay, and AWAKE if not.            *)
C1_UpdateRule ==
    [][ret'.op = "update" /\ ret'.at = now' =>
        /\ ret'.value = current_state'
        /\ current_state' \in SleepState
        /\ (ret'.voltage < empty_threshold => current_state' = EMPTY)
        /\ (ret'.voltage >= empty_threshold /\ ret'.variance > movement_threshold
               => current_state' = MOVING)
        /\ (ret'.voltage >= empty_threshold /\ ret'.variance <= movement_threshold
               => current_state' = (IF now' - last_move_time > sleep_delay
                                    THEN ASLEEP ELSE AWAKE))]_vars

\* an update classified a sample EMPTY although its variance was above the
\* movement threshold
C1_Witness ==
    /\ ret.op = "update"
    /\ ret.voltage < empty_threshold
    /\ ret.variance > movement_threshold
    /\ ret.value = EMPTY

---------------------------------------------------------------------------
(* Vocabulary of the storage claims *)

InTable(n) == \E i \in 1..Len(readings) : readings[i].reading.n = n
InQueue(n) == \E i \in 1..Len(memory_queue) : memory_queue[i].reading.n = n
Ids(rows) == {rows[i].id : i \in 1..Len(rows)}
RowOf(rows, id) == CHOOSE row \in Range(rows) : row.id = id
Unmarked(rows) == LET U(row) == ~row.synced IN SelectSeq(rows, U)
Min(a, b) == IF a < b THEN a ELSE b

\* the step is a store_reading call, a mark_synced call
StoreStep == Len(calls') = Len(calls) + 1
LastCall == calls[Len(calls)]
MarkStep == ret'.op = "mark_synced" /\ calls' = calls
GetStep == ret'.op = "get_unsynced_readings"

\* the text that the record of call c carries as its timestamp once stored
StoredTs(c) == Ts(IF c.value THEN SQL ELSE ISO, c.at)

---------------------------------------------------------------------------
(* C2, as claimed: after any sequence of store_reading calls with arbitrary *)
(* storage failures every record passed in is in the readings table or in  *)
(* the overflow queue, and a call whose durable write fails returns False  *)
(* with the record queued.                                                 *)
C2_NoRecordLost ==
    \A i \in 1..Len(calls) :
        /\ InTable(calls[i].reading.n) \/ InQueue(calls[i].reading.n)
        /\ calls[i].faults.insert => ~calls[i].value

(* C2, amended: a record passed in is in the readings table or in the      *)
(* overflow queue unless its write failed while the queue already held     *)
(* MAX_QUEUE_SIZE entries, or retention pruning has deleted it; it is never *)
(* in both; a call returns False exactly when its durable write failed, and *)
(* then the record is queued if the queue held fewer than MAX_QUEUE_SIZE.   *)
C2_NoRecordLostWithinCapacity ==
    /\ \A i \in 1..Len(calls) :
        LET c == calls[i]
            n == c.reading.n
        IN  /\ c.value = ~c.faults.insert
            /\ ~(InTable(n) /\ InQueue(n))
            /\ \/ InTable(n)
               \/ InQueue(n)
               \/ ~c.value /\ c.queued >= MAX_QUEUE_SIZE
               \/ TsLess(StoredTs(c), Cutoff(now))
            /\ InQueue(n) => ~c.value /\ c.queued < MAX_QUEUE_SIZE
    /\ ret.op = "store_reading" /\ ~ret.value /\ LastCall.queued < MAX_QUEUE_SIZE
          => /\ InQueue(LastCall.reading.n)
             /\ memory_queue[Len(memory_queue)].reading = LastCall.reading

\* one record was dropped at capacity, and one whose write failed was
\* replayed into the table later
C2_Witness ==
    /\ \E i \in 1..Len(calls) :
          ~calls[i].value /\ calls[i].queued >= MAX_QUEUE_SIZE
          /\ ~InTable(calls[i].reading.n) /\ ~InQueue(calls[i].reading.n)
    /\ \E i \in 1..Len(calls) : ~calls[i].value /\ InTable(calls[i].reading.n)

---------------------------------------------------------------------------
(* Vocabulary of the recording-controller claims *)

\* the step is an iteration of the sampling loop; its sample moves, is idle
IterationStep == samples' = samples + 1 /\ ret'.op = "iteration"
MovingSample == ret'.reading.variance > movement_threshold
Trigger == IterationStep /\ MovingSample /\ ~is_recording

\* the store_reading calls that the step made, and the readings they passed
NewCalls == SubSeq(calls', Len(calls) + 1, Len(calls'))
Passed == [i \in 1..Len(NewCalls) |-> NewCalls[i].reading]

\* the readings of the rows that the step inserted, in rowid order
NewRows == LET New(row) == row.id > seq IN SelectSeq(readings', New)
NewRowReadings == [i \in 1..Len(NewRows) |-> NewRows[i].reading]

\* s can be obtained from t by deleting elements
RECURSIVE IsSubseq(_, _)
IsSubseq(s, t) ==
    IF s = <<>> THEN TRUE
    ELSE IF t = <<>> THEN FALSE
    ELSE IF s[1] = t[1] THEN IsSubseq(Tail(s), Tail(t))
    ELSE IsSubseq(s, Tail(t))

\* the ring holds the latest samples, oldest first
RingHoldsLatest ==
    /\ Len(buffer) = Min(samples, BUFFER_MAXLEN)
    /\ \A i \in 1..Len(buffer) : buffer[i].n = samples - Len(buffer) + i

---------------------------------------------------------------------------
(* C3: from the initial state, as long as every sample taken has been idle *)
(* (variance <= movement_threshold), store_reading has not been called:    *)
(* nothing is in the table or in the overflow queue, the controller is not *)
(* recording, and the samples are in the pre-roll ring, which keeps the    *)
(* latest BUFFER_MAXLEN of them.                                           *)
C3_IdleNeverStored ==
    last_move_sample = 0 =>
        /\ calls = <<>>
        /\ readings = <<>> /\ memory_queue = <<>> /\ insert_count = 0
        /\ ~is_recording /\ post_roll_counter = 0
        /\ RingHoldsLatest
        /\ \A i \in 1..Len(buffer) : buffer[i].variance <= movement_threshold

\* more idle samples than the ring holds have been taken, one of them changed
\* the occupancy state, and nothing has been stored
C3_Witness ==
    /\ last_move_sample = 0
    /\ samples > BUFFER_MAXLEN
    /\ current_state = ASLEEP
    /\ Len(buffer) = BUFFER_MAXLEN
    /\ calls = <<>>

---------------------------------------------------------------------------
(* C4, as claimed: on a sample with variance > movement_threshold while    *)
(* is_recording is false the loop passes to store_reading every sample of  *)
(* the pre-roll ring, oldest first, and then the triggering sample, and    *)
(* these samples are in the readings table in that order when the          *)
(* iteration ends; is_recording becomes true and post_roll_counter         *)
(* POST_ROLL_SAMPLES.                                                      *)
C4_PreRollInStorage ==
    [][Trigger =>
        /\ Len(buffer) <= BUFFER_MAXLEN
        /\ Passed = buffer \o <<ret'.reading>>
        /\ IsSubseq(Passed, NewRowReadings)
        /\ is_recording' /\ post_roll_counter' = POST_ROLL_SAMPLES]_vars

\* sample n is in the overflow queue when the step ends
QueuedAfter(n) == \E i \in 1..Len(memory_queue') : memory_queue'[i].reading.n = n

\* the id of the row that the step inserted for sample n, 0 if there is none
NewId(n) ==
    IF \E i \in 1..Len(NewRows) : NewRows[i].reading.n = n
    THEN NewRows[CHOOSE i \in 1..Len(NewRows) : NewRows[i].reading.n = n].id
    ELSE 0

(* C4, amended: on such a sample the loop passes to store_reading every    *)
(* sample of the pre-roll ring (at most BUFFER_MAXLEN), oldest first, and  *)
(* then the triggering sample; is_recording becomes true and               *)
(* post_roll_counter POST_ROLL_SAMPLES.  When all of these writes succeed  *)
(* the samples are in the readings table in that order.  A sample whose    *)
(* write fails is not in the table in its place: it is in the overflow     *)
(* queue, or dropped because the queue was full, or replayed behind a      *)
(* sample that was passed after it.                                        *)
C4_PreRollPassedInOrder ==
    [][Trigger =>
        /\ Len(buffer) <= BUFFER_MAXLEN
        /\ Passed = buffer \o <<ret'.reading>>
        /\ buffer' = buffer
        /\ is_recording' /\ post_roll_counter' = POST_ROLL_SAMPLES
        /\ ((\A i \in 1..Len(NewCalls) : NewCalls[i].value)
              => IsSubseq(Passed, NewRowReadings))
        /\ \A i \in 1..Len(NewCalls) :
              ~NewCalls[i].value =>
                 \/ QueuedAfter(NewCalls[i].reading.n)
                 \/ NewCalls[i].queued >= MAX_QUEUE_SIZE
                 \/ \E j \in (i + 1)..Len(NewCalls) :
                       /\ NewCalls[j].value
                       /\ NewId(NewCalls[j].reading.n) > 0
                       /\ NewId(NewCalls[i].reading.n) > NewId(NewCalls[j].reading.n)]_vars

\* a trigger flushed a full ring that had already overwritten a sample; the
\* write of a pre-roll sample failed, and the sample was replayed into the
\* table behind the triggering sample
C4_Witness ==
    /\ ret.op = "iteration"
    /\ ret.reading.variance > movement_threshold
    /\ ret.stored = BUFFER_MAXLEN + 1
    /\ ret.reading.n > BUFFER_MAXLEN + 1
    /\ is_recording /\ post_roll_counter = POST_ROLL_SAMPLES
    /\ Len(readings) = BUFFER_MAXLEN + 1
    /\ readings[Len(readings)].reading.n < ret.reading.n
    /\ memory_queue = <<>>

---------------------------------------------------------------------------
(* C5: a non-moving sample that is the r-th sample after the last sample   *)
(* with variance > movement_threshold is passed to store_reading, once and *)
(* alone, when r <= POST_ROLL_SAMPLES, and is in the readings table when   *)
(* that write succeeds; is_recording is true until the POST_ROLL_SAMPLES-th *)
(* of them and false from it on; every later one is appended to the        *)
(* pre-roll ring and not passed to store_reading.                          *)
C5_ExactPostRoll ==
    [][IterationStep /\ ~MovingSample /\ last_move_sample > 0 =>
        LET r == samples' - last_move_sample
        IN  /\ r <= POST_ROLL_SAMPLES =>
                 /\ is_recording
                 /\ Passed = <<ret'.reading>>
                 /\ (NewCalls[1].value => IsSubseq(Passed, NewRowReadings))
                 /\ buffer' = buffer
                 /\ post_roll_counter' = POST_ROLL_SAMPLES - r
                 /\ is_recording' = (r < POST_ROLL_SAMPLES)
            /\ r > POST_ROLL_SAMPLES =>
                 /\ ~is_recording /\ ~is_recording'
                 /\ Passed = <<>>
                 /\ <<readings', memory_queue'>> = <<readings, memory_queue>>
                 /\ buffer' = DequeAppend(buffer, ret'.reading)]_vars

\* the sample after the post-roll of a movement event has been buffered: the
\* event stored its trigger and POST_ROLL_SAMPLES samples after it, and no more
C5_Witness ==
    /\ last_move_sample > 0
    /\ samples = last_move_sample + POST_ROLL_SAMPLES + 1
    /\ ~is_recording /\ post_roll_counter = 0
    /\ buffer[Len(buffer)].n = samples
    /\ LastCall.reading.n = last_move_sample + POST_ROLL_SAMPLES
    /\ \A i \in 1..Len(calls) : calls[i].reading.n # samples

---------------------------------------------------------------------------
(* C6: no occupancy state transition is lost: every sample on which        *)
(* update() changed current_state has been passed to store_reading, or is  *)
(* still in the pre-roll ring, from which a later trigger can store it.    *)
C6_NoTransitionLost ==
    \A n \in unsaved_changes : \E i \in 1..Len(buffer) : buffer[i].n = n

---------------------------------------------------------------------------
(* C7: when the read succeeds, get_unsynced_readings(limit) returns at most *)
(* limit readings, each with synced = false, and they are the oldest        *)
(* unmarked readings in the order in which they were inserted.             *)
C7_UnsyncedInInsertionOrder ==
    [][GetStep /\ ~ret'.fails =>
        LET unmarked == Unmarked(readings)
            k == Min(ret'.limit, Len(unmarked))
        IN  /\ Len(ret'.value) <= ret'.limit
            /\ \A i \in 1..Len(ret'.value) : ~RowOf(readings, ret'.value[i].id).synced
            /\ ret'.value = [i \in 1..k |-> Selected(unmarked[i])]]_vars

---------------------------------------------------------------------------
(* C8, as claimed: when the store is writable a store_reading call returns *)
(* True, increases total_readings by exactly one, and stores the new       *)
(* reading with synced = false, so that unsynced_readings grows by one too. *)
C8_EachWriteAddsOne ==
    [][StoreStep /\ calls'[Len(calls')].faults = NoFault =>
        /\ ret'.value
        /\ get_stats(DataManager').total_readings = get_stats(DataManager).total_readings + 1
        /\ get_stats(DataManager').unsynced_readings
              = get_stats(DataManager).unsynced_readings + 1]_vars

\* the rows that a retention pass at the time of the call deletes
Stale(rows, t) == {row \in Range(rows) : TsLess(row.timestamp, Cutoff(t))}
PruneDue == insert_count + 1 >= CLEANUP_INTERVAL

(* C8, amended: when the store is writable a store_reading call returns     *)
(* True and stores the new reading with synced = false; total_readings and *)
(* unsynced_readings grow by one, plus one for every overflow record the   *)
(* call replays, less the rows that the retention pass of every            *)
(* CLEANUP_INTERVAL-th write deletes: by exactly one when the overflow     *)
(* queue is empty and no retention pass is due.                            *)
C8_WritableStoreAddsRecords ==
    [][StoreStep /\ calls'[Len(calls')].faults = NoFault =>
        LET pruned == IF PruneDue THEN Stale(readings, now) ELSE {}
            new == {row \in Range(readings') : row.id > seq}
        IN  /\ ret'.value
            /\ \A row \in new : ~row.synced
            /\ \E row \in new : /\ row.reading = calls'[Len(calls')].reading
                                /\ row.id = seq + 1
            /\ Cardinality(new) = 1 + Len(memory_queue)
            /\ memory_queue' = <<>>
            /\ get_stats(DataManager').total_readings
                  = get_stats(DataManager).total_readings + 1 + Len(memory_queue)
                      - Cardinality(pruned)
            /\ get_stats(DataManager').unsynced_readings
                  = get_stats(DataManager).unsynced_readings + 1 + Len(memory_queue)
                      - Cardinality({row \in pruned : ~row.synced})]_vars

\* a fault-free write has replayed an overflow record, and the table holds
\* one row more than there were calls that returned True
C8_Witness ==
    /\ ret.op = "store_reading" /\ ret.value
    /\ LastCall.faults = NoFault
    /\ LastCall.queued > 0
    /\ Len(readings) > Cardinality({i \in 1..Len(calls) : calls[i].value})

---------------------------------------------------------------------------
(* C9, as claimed, for an accessible store: mark_synced(ids) sets synced   *)
(* for exactly the readings whose id is in ids, returns True, and marking  *)
(* every id that the preceding get_unsynced_readings returned leaves no    *)
(* unsynced reading.                                                       *)
C9_MarkReturnedDrains ==
    [][MarkStep /\ ~ret'.fails =>
        /\ ret'.value
        /\ \A i \in 1..Len(readings) :
              readings'[i] = [readings[i] EXCEPT !.synced = @ \/ readings[i].id \in ret'.ids]
        /\ (ret.op = "get_unsynced_readings" /\ ~ret.fails
              /\ ret'.ids = Ids(ret.value)
              => get_stats(DataManager').unsynced_readings = 0)]_vars

(* C9, amended: mark_synced(ids) returns True and sets synced for exactly  *)
(* the readings whose id is in ids, changing nothing else; repeating it     *)
(* changes nothing; with ids empty it returns True without touching the    *)
(* store; marking every id that get_unsynced_readings(limit) returned makes *)
(* exactly the returned readings synced, which leaves no unsynced reading   *)
(* when at most limit readings were unsynced.  On a storage error it        *)
(* returns False and changes nothing.                                       *)
C9_MarkSyncedExactly ==
    [][MarkStep =>
        /\ <<seq', memory_queue', insert_count'>> = <<seq, memory_queue, insert_count>>
        /\ Len(readings') = Len(readings)
        /\ ret'.value = ~ret'.fails
        /\ ret'.ids = {} \/ ret'.fails => readings' = readings
        /\ \A i \in 1..Len(readings) :
              readings'[i] = [readings[i] EXCEPT
                                 !.synced = @ \/ (~ret'.fails /\ readings[i].id \in ret'.ids)]
        /\ (ret.op = "mark_synced" /\ ret.value /\ ret.ids = ret'.ids
              => readings' = readings)
        /\ (ret.op = "get_unsynced_readings" /\ ~ret.fails /\ ~ret'.fails
              /\ ret'.ids = Ids(ret.value)
              => /\ get_stats(DataManager').unsynced_readings
                       = get_stats(DataManager).unsynced_readings - Len(ret.value)
                 /\ (get_stats(DataManager).unsynced_readings <= ret.limit
                       => get_stats(DataManager').unsynced_readings = 0))]_vars

\* a mark_synced call has marked a reading and left another one unsynced
C9_Witness ==
    /\ ret.op = "mark_synced" /\ ret.value
    /\ \E i, j \in 1..Len(readings) :
          /\ readings[i].synced /\ readings[i].id \in ret.ids
          /\ ~readings[j].synced /\ readings[j].id \notin ret.ids

---------------------------------------------------------------------------
(* C10: the synced flag is monotonic.  A row is created with synced =      *)
(* false, by store_reading and by an overflow flush alike; it becomes true *)
(* only in a mark_synced call that names its id; no step sets it back.     *)
C10_SyncedMonotonic ==
    [][/\ \A row \in Range(readings') : row.id > seq => ~row.synced
       /\ \A id \in Ids(readings) \cap Ids(readings') :
             /\ RowOf(readings, id).synced => RowOf(readings', id).synced
             /\ ~RowOf(readings, id).synced /\ RowOf(readings', id).synced
                   => MarkStep /\ ~ret'.fails /\ id \in ret'.ids]_vars

\* a store_reading call that replayed the overflow queue ran on a table that
\* holds a synced row
C10_Witness ==
    /\ ret.op = "store_reading" /\ ret.value
    /\ LastCall.queued > 0
    /\ \E i, j \in 1..Len(readings) :
          /\ readings[i].synced
          /\ ~readings[j].synced /\ readings[j].timestamp[2] = ISO

---------------------------------------------------------------------------
(* Vocabulary of the overflow claims *)

FlushStep == ret'.op = "flush_memory_queue" /\ calls' = calls
ReadingsOf(s) == [i \in 1..Len(s) |-> s[i].reading]

\* every store_reading call so far has failed, and its record waits in the
\* queue, in call order, with nothing in the table
AllQueued(rows, queue, cs) ==
    /\ \A i \in 1..Len(cs) : ~cs[i].value
    /\ rows = <<>>
    /\ ReadingsOf(queue) = ReadingsOf(cs)

---------------------------------------------------------------------------
(* C11: when the first k store_reading calls all fail, k <= MAX_QUEUE_SIZE, *)
(* exactly these k records are in the overflow queue, in call order, and    *)
(* the readings table is empty; a flush that then succeeds leaves the queue *)
(* empty and the table holding exactly these k records, each once, in call  *)
(* order.                                                                   *)
C11_OverflowThenFlush ==
    [][AllQueued(readings, memory_queue, calls) /\ Len(calls) <= MAX_QUEUE_SIZE =>
        /\ Len(memory_queue) = Len(calls)
        /\ (StoreStep /\ ~ret'.value /\ Len(calls) < MAX_QUEUE_SIZE
              => AllQueued(readings', memory_queue', calls'))
        /\ (FlushStep /\ ret'.fail_at = 0
              => /\ memory_queue' = <<>>
                 /\ ReadingsOf(readings') = ReadingsOf(calls)
                 /\ \A i \in 1..Len(readings') :
                       readings'[i].id = i /\ ~readings'[i].synced)]_vars

\* MAX_QUEUE_SIZE writes failed and a flush then moved all of them into the
\* table
C11_Witness ==
    /\ ret.op = "flush_memory_queue" /\ ret.fail_at = 0
    /\ Len(calls) = MAX_QUEUE_SIZE
    /\ \A i \in 1..Len(calls) : ~calls[i].value
    /\ memory_queue = <<>>
    /\ ReadingsOf(readings) = ReadingsOf(calls)

---------------------------------------------------------------------------
(* C12: an overflow flush is all-or-nothing.  When any of its statements   *)
(* fails, the table holds no row of the attempt (the table and the id      *)
(* counter are as before) and the queue is unchanged; when none fails, the *)
(* queued entries are appended to the table in queue order and the queue   *)
(* is emptied.  No record is ever in the table twice, or in the table and  *)
(* in the queue.                                                           *)
C12_FlushAllOrNothing ==
    [][FlushStep =>
        /\ (ret'.fail_at # 0
              => /\ <<readings', seq', memory_queue'>> = <<readings, seq, memory_queue>>
                 /\ DataManager' = flush_memory_queue(DataManager, TRUE))
        /\ (ret'.fail_at = 0
              => /\ memory_queue' = <<>>
                 /\ Len(readings') = Len(readings) + Len(memory_queue)
                 /\ SubSeq(readings', 1, Len(readings)) = readings
                 /\ \A i \in 1..Len(memory_queue) :
                       LET row == readings'[Len(readings) + i]
                       IN  /\ row.reading = memory_queue[i].reading
                           /\ row.timestamp = memory_queue[i].timestamp
                           /\ row.id = seq + i
                 /\ DataManager' = flush_memory_queue(DataManager, FALSE))
        /\ \A i, j \in 1..Len(readings') :
              i # j => readings'[i].reading.n # readings'[j].reading.n
        /\ \A i \in 1..Len(readings'), j \in 1..Len(memory_queue') :
              readings'[i].reading.n # memory_queue'[j].reading.n]_vars

\* a flush of a full queue failed at its last INSERT: the queue is whole and
\* the table holds none of its entries
C12_Witness ==
    /\ ret.op = "flush_memory_queue"
    /\ ret.fail_at = MAX_QUEUE_SIZE
    /\ Len(memory_queue) = MAX_QUEUE_SIZE
    /\ MAX_QUEUE_SIZE > 1
    /\ \A i \in 1..Len(memory_queue) : ~InTable(memory_queue[i].reading.n)

---------------------------------------------------------------------------
(* C14: the overflow queue never holds more than MAX_QUEUE_SIZE entries,   *)
(* whatever the pattern of storage failures.                               *)
C14_QueueBounded == Len(memory_queue) <= MAX_QUEUE_SIZE

\* the queue is full and the write that failed last was turned away
C14_Witness ==
    /\ Len(memory_queue) = MAX_QUEUE_SIZE
    /\ ret.op = "store_reading" /\ ~ret.value
    /\ LastCall.queued = MAX_QUEUE_SIZE
    /\ ~InQueue(LastCall.reading.n)

---------------------------------------------------------------------------
(* Vocabulary of the retention claims *)

CleanupStep == ret'.op = "cleanup_old_data" /\ calls' = calls

\* the time at which the text of a timestamp was taken, and the retention
\* window in ticks
TimeOf(ts) == ts[1] * DayLen + ts[3]
Window == RETENTION_DAYS * DayLen
Successes(cs) == Cardinality({i \in 1..Len(cs) : cs[i].value})

---------------------------------------------------------------------------
(* C15: a cleanup_old_data call that reaches the store deletes exactly the *)
(* readings whose age exceeds the retention window, synced or not, keeps   *)
(* every younger reading, whether written with the default timestamp or    *)
(* replayed from the overflow queue, and returns the number it removed.    *)
C15_DeletesExactlyOld ==
    [][CleanupStep /\ ~ret'.fails =>
        /\ \A row \in Range(readings) :
              (row \in Range(readings')) = (now - TimeOf(row.timestamp) <= Window)
        /\ Range(readings') \subseteq Range(readings)
        /\ ret'.value = Len(readings) - Len(readings')]_vars

---------------------------------------------------------------------------
(* C16: the write counter counts the successful durable writes modulo      *)
(* CLEANUP_INTERVAL.  A failed write leaves it and the table alone; a      *)
(* successful write increments it, and exactly every CLEANUP_INTERVAL-th   *)
(* successful write runs the retention pass and resets it to 0, so that it *)
(* is in 0..CLEANUP_INTERVAL-1 between calls.                              *)
C16_PruneEveryInterval ==
    [][StoreStep =>
        LET c == calls'[Len(calls')]
            due == c.value /\ Successes(calls') % CLEANUP_INTERVAL = 0
        IN  /\ insert_count' = Successes(calls') % CLEANUP_INTERVAL
            /\ insert_count' \in 0..(CLEANUP_INTERVAL - 1)
            /\ (~c.value => insert_count' = insert_count /\ readings' = readings)
            /\ (c.value /\ ~due => insert_count' = insert_count + 1)
            /\ (due => insert_count' = 0)
            /\ (due /\ ~c.faults.cleanup
                  => \A row \in Range(readings) :
                        (row \in Range(readings')) = ~TsLess(row.timestamp, Cutoff(now)))
            /\ (~due \/ c.faults.cleanup => Range(readings) \subseteq Range(readings'))]_vars

\* the CLEANUP_INTERVAL-th successful write, made after a failed one, has
\* pruned a row that an earlier write had stored
C16_Witness ==
    /\ ret.op = "store_reading" /\ ret.value
    /\ Successes(calls) = CLEANUP_INTERVAL
    /\ Len(calls) > CLEANUP_INTERVAL
    /\ insert_count = 0
    /\ \E i \in 1..Len(calls) : calls[i].value /\ ~InTable(calls[i].reading.n)

---------------------------------------------------------------------------
---------------------------------------------------------------------------
(* C18: table calibration never holds more than one row; a load_calibration *)
(* that reaches the store returns None while no save_calibration has       *)
(* succeeded, and otherwise the baseline_voltage, occupied_threshold and   *)
(* movement_threshold of the last save_calibration that returned True      *)
(* (the last call, when no storage access fails).                          *)
Saved(c) == c.value
LastSaved == LET ok == SelectSeq(calls, Saved) IN ok[Len(ok)].cal

C18_SingleRowLastWriteWins ==
    /\ Cardinality(calibration) <= 1
    /\ ret.op = "load_calibration" /\ ~ret.fails =>
          IF SelectSeq(calls, Saved) = <<>>
          THEN ret.value = {}
          ELSE /\ Cardinality(ret.value) = 1
               /\ \A row \in ret.value :
                     /\ row.id = 1
                     /\ row.baseline_voltage = LastSaved.baseline_voltage
                     /\ row.occupied_threshold = LastSaved.occupied_threshold
                     /\ row.movement_threshold = LastSaved.movement_threshold

\* two saves with different values went through, and a load then returned
\* the values of the second
C18_Witness ==
    /\ Len(calls) >= 2
    /\ calls[1].value /\ calls[2].value
    /\ calls[1].cal.baseline_voltage # calls[2].cal.baseline_voltage
    /\ calls[1].cal.occupied_threshold # calls[2].cal.occupied_threshold
    /\ ret.op = "load_calibration" /\ ~ret.fails
    /\ \E row \in ret.value : row.baseline_voltage = calls[2].cal.baseline_voltage
    /\ Cardinality(calibration) = 1

---------------------------------------------------------------------------
(* C19: a synchronising pass sets the synced flag only of readings whose   *)
(* upload reported success in that pass.  sync_unsynced_data calls         *)
(* mark_synced only when insert_batch returned a true value, and then with *)
(* the ids of the uploaded batch; when the upload is rejected or raises it *)
(* is not called and no flag changes.  sync_once marks a row only after    *)
(* publish returned rc = 0 for it, and nothing after the first rc # 0 or   *)
(* without a connection.                                                   *)
NewlySynced ==
    {readings[i].id : i \in {j \in 1..Len(readings) :
                               ~readings[j].synced /\ readings'[j].synced}}
Published(rows, results) ==
    {rows[i].id : i \in {j \in 1..Len(rows) :
                           /\ results[j] \in {"ok", "unmarked"}
                           /\ \A k \in 1..(j - 1) : results[k] # "fail"}}

C19_MarkOnlyAfterSuccess ==
    [][/\ ret'.op = "sync_unsynced_data" =>
            LET batch == IdsOf(get_unsynced_readings(DataManager, SYNC_LIMIT, ret'.fails.get))
            IN  /\ ret'.upload # "ok" => ~ret'.called /\ NewlySynced = {}
                /\ ret'.called => ret'.upload = "ok" /\ ret'.marked = batch /\ batch # {}
                /\ NewlySynced \subseteq ret'.marked
                /\ ret'.upload = "ok" /\ ~ret'.fails.mark => NewlySynced = batch
       /\ ret'.op = "sync_once" =>
            LET rows == get_unsynced_readings(DataManager, batch_size, ret'.fails)
            IN  /\ NewlySynced \subseteq Published(rows, ret'.results)
                /\ ~ret'.connected => NewlySynced = {} /\ ret'.value = 0
                /\ ret'.connected =>
                      /\ ret'.value = Cardinality(Published(rows, ret'.results))
                      /\ NewlySynced = {rows[i].id : i \in {j \in 1..Len(rows) :
                             /\ ret'.results[j] = "ok"
                             /\ \A k \in 1..(j - 1) : ret'.results[k] # "fail"}}]_vars

\* sync_once fetched two unsynced readings, published the first, got rc # 0
\* for the second, and left exactly the second unsynced
C19_Witness ==
    /\ ret.op = "sync_once" /\ ret.connected
    /\ Len(ret.rows) = 2
    /\ ret.results[1] = "ok" /\ ret.results[2] = "fail"
    /\ ret.value = 1
    /\ RowOf(readings, ret.rows[1].id).synced
    /\ ~RowOf(readings, ret.rows[2].id).synced

---------------------------------------------------------------------------
(* C13: whenever the overflow queue holds records, it is eventually empty  *)
(* again with every one of them a row of table readings, in every run of   *)
(* the process, also when no further sample is recorded and when the       *)
(* process shuts down.                                                     *)
QueueReplayed ==
    /\ memory_queue = <<>>
    /\ \A i \in 1..Len(calls) : ~calls[i].value => InTable(calls[i].reading.n)

C13_QueuedEventuallyStored == (memory_queue # <<>>) ~> QueueReplayed

---------------------------------------------------------------------------
(* C20: when the process exits after a terminating signal, shutdown has    *)
(* replayed the overflow queue into table readings and has run a retention *)
(* pass: with the store accessible, the queue is empty and no reading      *)
(* older than the retention window is left.                                *)
C20_FinalFlushAndRetention ==
    [][phase = "loop" /\ phase' = "exited" =>
          /\ memory_queue' = <<>>
          /\ Stale(readings', now') = {}]_vars

---------------------------------------------------------------------------
(* The history of get_voltage calls *)

\* the near-zero readings in a row at the end of h; a call whose read of the
\* converter raised produced no reading
RECURSIVE Streak(_)
Streak(h) ==
    IF h = <<>> THEN 0
    ELSE LET e == h[Len(h)]
             rest == SubSeq(h, 1, Len(h) - 1)
         IN  IF e.source = "error" THEN Streak(rest)
             ELSE IF e.source = "adc" /\ e.value < NEAR_ZERO THEN Streak(rest) + 1
             ELSE 0

\* the call that completed the first streak of BROKEN_SENSOR_READINGS, or 0
SwitchIndex(h) ==
    LET S == {i \in 1..Len(h) : Streak(SubSeq(h, 1, i)) >= BROKEN_SENSOR_READINGS}
    IN  IF S = {} THEN 0 ELSE CHOOSE i \in S : \A j \in S : i <= j

Simulated(i) == calls[i].source = "simulation"

---------------------------------------------------------------------------
(* C21: the sensor is in simulation mode exactly from the reading that     *)
(* completes BROKEN_SENSOR_READINGS near-zero (< 0.01 V) readings in a row *)
(* (or from construction); a reading of 0.01 V or more before that resets  *)
(* the count to 0; from the switch on every get_voltage call answers with  *)
(* synthetic data without reading the converter, and no operation sets     *)
(* simulation_mode back to false.                                          *)
C21_History ==
    LET k == SwitchIndex(calls)
    IN  IF calls # <<>> /\ Simulated(1)
        THEN simulation_mode /\ \A i \in 1..Len(calls) : Simulated(i)
        ELSE /\ calls # <<>> => (simulation_mode <=> k > 0)
             /\ \A i \in 1..Len(calls) : Simulated(i) <=> (k > 0 /\ i > k)
             /\ ~simulation_mode => zero_reading_count = Streak(calls)

C21_OneWaySwitch ==
    /\ []C21_History
    /\ [][simulation_mode => simulation_mode']_vars

\* the streak was completed by the third reading in a row and a later call
\* was answered by the generator
C21_Witness ==
    /\ simulation_mode
    /\ SwitchIndex(calls) = BROKEN_SENSOR_READINGS
    /\ Len(calls) > SwitchIndex(calls)
    /\ Simulated(Len(calls))

---------------------------------------------------------------------------
(* C23: when the read of the converter raises, get_voltage returns the     *)
(* voltage of the most recent call that did not fail (0 if there was none) *)
(* and changes nothing in the sensor: not the last reading, not the count  *)
(* of near-zero readings, not the simulation flag.                         *)
LastGood(h) ==
    LET G == {i \in 1..Len(h) : h[i].source # "error"}
    IN  IF G = {} THEN 0 ELSE h[CHOOSE i \in G : \A j \in G : j <= i].value

---------------------------------------------------------------------------
(* C29: get_force_percentage returns a value in 0..100: 0 when the voltage *)
(* is the baseline or below it, 100 when it is the occupied threshold or   *)
(* above it, 50 at the midpoint, and 0 whenever occupied_threshold -       *)
(* baseline_voltage is not positive.  The value is the fraction num / den. *)
C29_ForcePercentage ==
    [][ret'.op = "get_force_percentage" /\ Len(calls') = Len(calls) + 1 =>
        LET v == ret'.voltage
            p == ret'.value
            b == baseline_voltage
            o == occupied_threshold
        IN  /\ p.den > 0 /\ 0 <= p.num /\ p.num <= 100 * p.den
            /\ o - b <= 0 => p.num = 0
            /\ o - b > 0 =>
                  /\ v = b => p.num = 0
                  /\ v = o => p.num = 100 * p.den
                  /\ 2 * v = b + o => 2 * p.num = 100 * p.den
                  /\ v < b => p.num = 0
                  /\ v > o => p.num = 100 * p.den
                  /\ b <= v /\ v <= o => p.num * (o - b) = (v - b) * 100 * p.den]_vars

\* the voltage was at the midpoint of a calibrated range and the result 50
C29_Witness ==
    /\ ret.op = "get_force_percentage"
    /\ occupied_threshold > baseline_voltage
    /\ 2 * ret.voltage = baseline_voltage + occupied_threshold
    /\ 2 * ret.value.num = 100 * ret.value.den

---------------------------------------------------------------------------
(* C30: after every completed calibrate() call, also one made in           *)
(* simulation mode, movement_threshold is max(0.10 * |occupied_threshold - *)
(* baseline_voltage|, 0.05 V) for the values the call set, and the three   *)
(* values were passed to save_calibration exactly once when a data manager *)
(* is attached.                                                            *)
C30_MovementThresholdRule ==
    [][ret'.op = "calibrate" =>
          /\ 10 * fsr_movement_threshold' =
                Max(Abs(occupied_threshold' - baseline_voltage'), 10 * MIN_MOVEMENT)
          /\ ret'.value = [baseline_voltage |-> baseline_voltage',
                           occupied_threshold |-> occupied_threshold',
                           movement_threshold |-> fsr_movement_threshold']
          /\ ret'.saves = IF data_manager THEN 1 ELSE 0
          /\ data_manager /\ ~ret'.fails =>
                calibration' = {CalibrationRow(ret'.value, now)}]_vars

---------------------------------------------------------------------------
(* C22: every record produced while the sensor is in simulation mode       *)
(* carries a synthetic-data flag: a row that main_loop stores for a sample *)
(* taken in simulation mode has the flag, and it is set.                   *)
Flagged(reading) ==
    /\ "simulation_mode" \in DOMAIN reading
    /\ reading.simulation_mode

C22_SyntheticFlagged ==
    [][IterationStep /\ simulation_mode =>
          \A i \in 1..Len(readings') :
              readings'[i].reading.n = samples' => Flagged(readings'[i].reading)]_vars

---------------------------------------------------------------------------
(* Vocabulary of the driver claims *)

\* the number of attempts that fail before the first that succeeds
Failures(outcomes, ok(_)) ==
    IF \A i \in 1..retries : ~ok(outcomes[i]) THEN retries
    ELSE (CHOOSE i \in 1..retries :
              ok(outcomes[i]) /\ \A j \in 1..(i - 1) : ~ok(outcomes[j])) - 1

WriteFailures == Failures(ret.outcomes, LAMBDA o : o = "ok")
ReadFailures == Failures(ret.outcomes, LAMBDA o : o.kind = "ok")

\* the bus calls of one kind among those made
CallsOf(io, call) == SelectSeq(io, LAMBDA c : c.call = call)

\* the two bytes that answer a register read
Answer == ret.outcomes[ReadFailures + 1].data

\* a 16-bit pattern read as a two's complement number
Signed16(v) == IF v < 32768 THEN v ELSE v - 65536

OnBus(op) == ret.op = op /\ ~mock

---------------------------------------------------------------------------
(* C24: read_raw never raises.  When the config write, a poll or the read  *)
(* of the conversion register fails for good, or the polling times out,    *)
(* it returns the last good conversion value and leaves it as it was.      *)
C24_ReadRawNeverPropagates ==
    [][ret'.op = "read_raw" =>
          /\ ~ret'.raised
          /\ ~mock /\ ~ret'.complete =>
                /\ ret'.value = last_value
                /\ last_value' = last_value]_vars

---------------------------------------------------------------------------
(* C25: _write_register sends, on every attempt, the pointer and the value *)
(* as two bytes, most significant first, and sends them once when the bus  *)
(* accepts them; _read_register writes the pointer byte, reads two bytes   *)
(* and returns them, most significant first, as a two's complement number  *)
(* in -32768..32767 ([0xFF, 0xFF] is -1); a value written and then read    *)
(* back as the same two bytes is v for v < 0x8000 and v - 65536 otherwise. *)
C25_Bytes ==
    /\ OnBus("_write_register") =>
          /\ \A i \in 1..Len(ret.io) :
                ret.io[i] = BusCall("write_i2c_block_data", ret.pointer,
                                    <<ret.value \div 256, ret.value % 256>>)
          /\ WriteFailures = 0 => Len(ret.io) = 1
    /\ OnBus("_read_register") /\ ~ret.raised =>
          /\ ret.value = Signed16(256 * Answer[1] + Answer[2])
          /\ ret.value \in -32768..32767
          /\ Len(ret.io) >= 2
          /\ SubSeq(ret.io, Len(ret.io) - 1, Len(ret.io)) =
                <<BusCall("write_byte", ret.pointer, <<>>),
                  BusCall("read_i2c_block_data", ret.pointer, <<>>)>>

C25_RoundTrip ==
    []C25_Bytes /\
    [][(/\ OnBus("_write_register") /\ ~ret.raised
        /\ ret'.op = "_read_register" /\ ~ret'.raised
        /\ ret'.outcomes[Failures(ret'.outcomes, LAMBDA o : o.kind = "ok") + 1].data
              = ret.io[Len(ret.io)].data)
          => ret'.value = Signed16(ret.value)]_vars

\* the bytes 0xFF, 0xFF have been read as -1
C25_Witness ==
    /\ OnBus("_read_register") /\ ~ret.raised
    /\ Answer = <<255, 255>>
    /\ ret.value = -1

---------------------------------------------------------------------------
(* C26: a register write or read on the bus makes k + 1 attempts and       *)
(* returns when the bus fails k < 3 times and then succeeds, sleeping 0.1 s *)
(* times the attempt number between them; when the bus fails 3 times it    *)
(* raises ADS1115Error after exactly 3 attempts.                           *)
Attempted(k, made) ==
    /\ ret.raised <=> k = retries
    /\ made = IF k = retries THEN retries ELSE k + 1
    /\ ret.waits = [i \in 1..(made - 1) |-> i]

C26_BoundedRetries ==
    /\ OnBus("_write_register") =>
          /\ Attempted(WriteFailures, Len(ret.io))
          /\ \A i \in 1..Len(ret.io) : ret.io[i].call = "write_i2c_block_data"
    /\ OnBus("_read_register") =>
          /\ Attempted(ReadFailures, Len(CallsOf(ret.io, "write_byte")))
          /\ Len(CallsOf(ret.io, "read_i2c_block_data")) <= Len(CallsOf(ret.io, "write_byte"))
          /\ Len(ret.io) = Len(CallsOf(ret.io, "write_byte"))
                              + Len(CallsOf(ret.io, "read_i2c_block_data"))

\* a write has raised after three attempts
C26_Witness ==
    /\ OnBus("_write_register") /\ ret.raised
    /\ Len(ret.io) = 3

---------------------------------------------------------------------------
(* C27: _build_config(channel, continuous) is, for channel in 0..3, the    *)
(* 16-bit word with bit 15 = 1, bits 14..12 = 4 + channel, bits 11..9 = 1, *)
(* bit 8 = 1 for single-shot and 0 for continuous, bits 7..5 = 4, bits     *)
(* 4..2 = 0 and bits 1..0 = 3; the call touches neither the bus nor the    *)
(* driver's state.                                                         *)
Bits(v, low, width) == (v \div Pow2(low)) % Pow2(width)

C27_Word ==
    ret.op = "_build_config" =>
       /\ ret.value \in 0..65535
       /\ Bits(ret.value, 15, 1) = 1
       /\ Bits(ret.value, 12, 3) = 4 + ret.channel
       /\ Bits(ret.value, 9, 3) = 1
       /\ Bits(ret.value, 8, 1) = (IF ret.continuous THEN 0 ELSE 1)
       /\ Bits(ret.value, 5, 3) = 4
       /\ Bits(ret.value, 2, 3) = 0
       /\ Bits(ret.value, 0, 2) = 3
       /\ ret.io = <<>>

C27_BuildConfig ==
    []C27_Word /\ [][ret'.op = "_build_config" => UNCHANGED adcVars]_vars

\* the word for channel 0, single-shot: 0xC383
C27_Witness ==
    /\ ret.op = "_build_config"
    /\ ret.channel = 0 /\ ~ret.continuous
    /\ ret.value = 50051

---------------------------------------------------------------------------
(* C28: in mock mode no operation of the driver makes a bus call, and      *)
(* every raw value that read_raw and _read_register return is in           *)
(* -32768..32767.                                                          *)
C28_MockInRange ==
    mock /\ ret.op # "none" =>
       /\ ret.io = <<>>
       /\ ret.op \in {"read_raw", "_read_register"} => ret.value \in -32768..32767

---------------------------------------------------------------------------
(* Vocabulary of the detector's timing claims *)

\* the sample of call r is classified EMPTY or MOVING; otherwise it is
\* present and still, and classified AWAKE or ASLEEP
Disturbing(r) == r.voltage < empty_threshold \/ r.variance > movement_threshold

---------------------------------------------------------------------------
(* C31: update sets last_move_time to now exactly when the sample is       *)
(* classified EMPTY or MOVING and leaves it unchanged when the sample is   *)
(* classified AWAKE or ASLEEP; state_start_time changes only on an update  *)
(* whose result differs from the previous current_state, and is then now.  *)
C31_TimerFrame ==
    [][ret'.op = "update" =>
          /\ Disturbing(ret') => last_move_time' = now'
          /\ ~Disturbing(ret') => last_move_time' = last_move_time
          /\ ret'.value # current_state => state_start_time' = now'
          /\ ret'.value = current_state => state_start_time' = state_start_time]_vars

\* an update has reported ASLEEP for the first time and has left the sleep
\* timer where it was
C31_Witness ==
    /\ ret.op = "update" /\ ret.value = ASLEEP
    /\ state_start_time = ret.at
    /\ last_move_time < ret.at

---------------------------------------------------------------------------
(* C32: whenever the state is ASLEEP, more than sleep_delay has passed     *)
(* since the most recent update classified EMPTY or MOVING, or since       *)
(* construction or reset: such an update, and a reset, restart the timer   *)
(* and never report ASLEEP, and ASLEEP is reported only when more than     *)
(* sleep_delay has passed since the timer was restarted.                   *)
C32_Still == current_state = ASLEEP => now - last_move_time > sleep_delay

C32_Hysteresis ==
    []C32_Still /\
    [][(ret'.op = "reset" \/ (ret'.op = "update" /\ Disturbing(ret'))) =>
          /\ current_state' # ASLEEP
          /\ last_move_time' = now']_vars

\* ASLEEP is reported just after the delay that followed a disturbance
C32_Witness ==
    /\ current_state = ASLEEP
    /\ last_move_time > 0
    /\ now - last_move_time = sleep_delay + 1

---------------------------------------------------------------------------
(* C40: the detector never goes from ASLEEP to AWAKE.  Once it is ASLEEP a *)
(* present-and-still sample keeps it ASLEEP, and an update leaves ASLEEP   *)
(* only on a sample classified EMPTY or MOVING.                            *)
C40_NoAsleepToAwake ==
    [][current_state = ASLEEP /\ ret'.op = "update" =>
          /\ ret'.value # AWAKE
          /\ ~Disturbing(ret') => current_state' = ASLEEP
          /\ current_state' # ASLEEP =>
                Disturbing(ret') /\ current_state' \in {EMPTY, MOVING}]_vars

\* a still sample has found the detector ASLEEP and has kept it so
C40_Witness ==
    /\ ret.op = "update" /\ ret.value = ASLEEP
    /\ ~Disturbing(ret)
    /\ state_start_time < ret.at

---------------------------------------------------------------------------
(* C33: a sample with variance > movement_threshold that arrives while     *)
(* is_recording is true is passed to store_reading exactly once and alone  *)
(* (and is a row of table readings when that write succeeds);              *)
(* post_roll_counter becomes POST_ROLL_SAMPLES, is_recording stays true    *)
(* and the pre-roll ring is neither flushed nor changed.                   *)
C33_MovementWhileRecording ==
    [][IterationStep /\ MovingSample /\ is_recording =>
          /\ Passed = <<ret'.reading>>
          /\ NewCalls[1].value => IsSubseq(Passed, NewRowReadings)
          /\ post_roll_counter' = POST_ROLL_SAMPLES
          /\ is_recording'
          /\ buffer' = buffer]_vars

\* a moving sample has followed the first sample of the post-roll, with a
\* sample in the ring: the last two calls passed these two samples
C33_Witness ==
    /\ ret.op = "iteration"
    /\ ret.reading.variance > movement_threshold
    /\ Len(buffer) > 0
    /\ Len(calls) >= 2
    /\ LastCall.reading = ret.reading
    /\ calls[Len(calls) - 1].reading.n = samples - 1
    /\ calls[Len(calls) - 1].reading.variance <= movement_threshold
    /\ post_roll_counter = POST_ROLL_SAMPLES /\ is_recording

---------------------------------------------------------------------------
(* C36, as claimed: each sample is passed to store_reading at most once,   *)
(* and the samples are passed in the order in which they were taken.       *)
C36_StoredOnceInOrder ==
    \A i, j \in 1..Len(calls) : i < j => calls[i].reading.n < calls[j].reading.n

---------------------------------------------------------------------------
(* C39: between iterations is_recording is true exactly when               *)
(* post_roll_counter > 0, post_roll_counter is in 0..POST_ROLL_SAMPLES,    *)
(* and the pre-roll ring holds at most BUFFER_MAXLEN samples.              *)
C39_ControllerInvariant ==
    /\ is_recording <=> post_roll_counter > 0
    /\ post_roll_counter \in 0..POST_ROLL_SAMPLES
    /\ Len(buffer) <= BUFFER_MAXLEN

\* the last sample of a post-roll has ended the recording with a full ring
C39_Witness ==
    /\ ret.op = "iteration"
    /\ samples = last_move_sample + POST_ROLL_SAMPLES
    /\ last_move_sample > 0
    /\ ~is_recording /\ post_roll_counter = 0
    /\ Len(buffer) = BUFFER_MAXLEN

---------------------------------------------------------------------------
(* Vocabulary of the claims on the order and the place of records *)

\* the numbers of the records in a table, in a queue
InRows(rows) == {rows[i].reading.n : i \in 1..Len(rows)}
IdOf(rows, n) == (CHOOSE row \in Range(rows) : row.reading.n = n).id

---------------------------------------------------------------------------
(* C38: store_reading returns True exactly when the record passed in is a  *)
(* row of table readings when the call returns; no record is in the table  *)
(* and in the overflow queue; a retention pass or an overflow flush that   *)
(* fails inside a call whose insert succeeded leaves the return value True *)
(* and does not queue the record.                                          *)
C38_Placed ==
    /\ InRows(readings) \cap InRows(memory_queue) = {}
    /\ ret.op = "store_reading" =>
          /\ ret.value <=> InTable(LastCall.reading.n)
          /\ LastCall.faults.cleanup \/ LastCall.faults.flush =>
                ret.value /\ ~InQueue(LastCall.reading.n)

C38_TrueIffStored ==
    []C38_Placed /\
    [][StoreStep =>
          /\ calls'[Len(calls')].faults.flush => memory_queue' = memory_queue
          /\ calls'[Len(calls')].faults.cleanup => IsSubseq(readings, readings')]_vars

\* the flush inside a successful write has failed: the record is a row, the
\* call returned True, and the queue holds what it held
C38_Witness ==
    /\ ret.op = "store_reading" /\ ret.value
    /\ LastCall.faults.flush
    /\ InTable(LastCall.reading.n)
    /\ memory_queue # <<>>

---------------------------------------------------------------------------
(* C37, as claimed: for any two records A and B passed to store_reading    *)
(* with A before B, if both are rows of table readings then id(A) < id(B), *)
(* also when A was diverted to the overflow queue and replayed later.      *)
C37_IdsInProductionOrder ==
    \A i, j \in 1..Len(calls) :
        i < j /\ InTable(i) /\ InTable(j) => IdOf(readings, i) < IdOf(readings, j)

(* C37, amended: ids are assigned in the order of the inserts.  For A      *)
(* passed before B and both in the table, id(A) < id(B) when A was written *)
(* by its own call, or when B too was diverted to the overflow queue.  A   *)
(* record replayed from the queue inside a store_reading call is inserted  *)
(* after the record of that call: a diverted A gets a larger id than every *)
(* B written directly while A was queued.                                  *)
C37_Ordered ==
    \A i, j \in 1..Len(calls) :
        i < j /\ InTable(i) /\ InTable(j) /\ (calls[i].value \/ ~calls[j].value)
            => IdOf(readings, i) < IdOf(readings, j)

C37_IdsInInsertOrder ==
    []C37_Ordered /\
    [][StoreStep /\ ret'.value =>
          \A n \in InRows(memory_queue) :
              n \in InRows(readings') =>
                  IdOf(readings', n) > IdOf(readings', Len(calls'))]_vars

\* A was diverted, B written directly, and A replayed behind it
C37_Witness ==
    \E i, j \in 1..Len(calls) :
        /\ i < j /\ ~calls[i].value /\ calls[j].value
        /\ InTable(i) /\ InTable(j)
        /\ IdOf(readings, i) > IdOf(readings, j)

---------------------------------------------------------------------------
(* C35: with the periodic sync of the firmware and an upstream that        *)
(* accepts uploads, every reading that is in table readings with synced =  *)
(* false is eventually marked synced.                                      *)
UnsyncedRow(n) == \E i \in 1..Len(readings) : readings[i].reading.n = n /\ ~readings[i].synced
SyncedRow(n) == \E i \in 1..Len(readings) : readings[i].reading.n = n /\ readings[i].synced

C35_EventuallySynced ==
    \A n \in 1..MaxPeriodicCalls : UnsyncedRow(n) ~> SyncedRow(n)


\* C34: for every interleaving of store_reading (its insert, its retention
\* pass and its replay of the overflow queue) with a sync_once pass, a row is
\* marked synced only if its reading was returned to a pass and transmitted
\* by it, and a step of the pass loses no row and no queued reading, leaves
\* the call in progress as it is, and changes the synced flag of no row
\* written after the pass read the table.
SameBut(row, old) == [row EXCEPT !.synced = old.synced] = old

\* what an iteration of the for loop of sync_once leaves of the store
C34_PassStep ==
    /\ Len(readings') = Len(readings)
    /\ \A i \in 1..Len(readings) :
          /\ SameBut(readings'[i], readings[i])
          /\ (readings[i].id > pass.since \/ readings[i].id \notin IdsOf(pass.rows))
                => readings'[i] = readings[i]
    /\ memory_queue' = memory_queue
    /\ storing' = storing

C34_Tolerated ==
    /\ [](\A i \in 1..Len(readings) :
             readings[i].synced => readings[i].reading.n \in published)
    /\ [][pass.pc = "publishing" /\ pass' # pass => C34_PassStep]_vars

\* a pass has marked a row it fetched while a store_reading call that began
\* after the fetch is between its transactions, its row in the table unsynced
C34_Witness ==
    /\ pass.pc = "publishing"
    /\ storing.pc # "idle"
    /\ \E i \in 1..Len(readings) :
          readings[i].id \in IdsOf(pass.rows) /\ readings[i].synced
    /\ \E i \in 1..Len(readings) :
          /\ readings[i].id > pass.since
          /\ readings[i].reading = storing.reading
          /\ ~readings[i].synced
=========================================================================
